---- MODULE Spec2Model ----
(***************************************************************************)
(* PRISM (Protected-Region Insertion Suite for Modeling).                  *)
(*                                                                         *)
(* A model of the region-classification and pipeline-staging logic:       *)
(*   - job splitting of the automodel stage (controller.main),             *)
(*   - the Region Classifier (identify_experimental_residues),             *)
(*   - the Flank/Loop Calculator (run_prerequisites, main_workflow),       *)
(*   - the Range Grouper (group_ranges),                                   *)
(*   - the Secondary-Structure Reader (read_ss2_file),                     *)
(*   - the Annotator (add_cde_line_to_pir).                                *)
(*                                                                         *)
(* Strings are sequences of one-character strings.  Every area of the     *)
(* program has its own specification (Init/Next pair) over the shared      *)
(* variables; the variables of the other areas keep their idle value.      *)
(***************************************************************************)
EXTENDS Integers, Sequences, FiniteSets, TLC

(***************************************************************************)
(* Bounds of the model.                                                    *)
(***************************************************************************)
MaxModels == 7
MaxJobs == 4
MaxCols == 3
MaxLen == 5
MaxFlank == 2
MaxResidue == 5
MaxSeqFull == 4
MaxAliCols == 3

VARIABLES
    pc,
    \* automodel stage: job splitting
    NUM_MODELS_AUTO, NUM_SPLITTED_PROCESSES, exited, engine_calls,
    \* alignment, sequence and secondary-structure inputs
    aligned_template_seq, aligned_target_seq, seq_full, ss2_file,
    EXPERIMENTAL_FLANK_SIZE, REFINE_FLANKS_DURING_AUTOMODEL,
    \* Region Classifier and Flank/Loop Calculator
    experimental_residues, flank_residues, truly_fixed_residues,
    all_coil, loop_ranges, automodel_fixed,
    \* loop refinement of main_workflow
    initial_models_names, valid_loop_ranges, loop_j, submitted,
    \* Range Grouper
    residues, ranges, regrouped,
    \* Secondary-Structure Reader and Annotator
    ss2_result, cde_result,
    \* Alignment Reader
    ali_file, ali_result, ali_reads,
    \* orchestrator and scheduler
    RSR_INI_PRECALCULATION, NUM_MODELS_TO_REFINE, orch_pc, job_dep, task_state,
    task_exit,
    \* rank-automodel and final-rank stages
    work_dir, selected_for_refinement, NUM_BEST_FINAL_MODELS, evaluated,
    ranking_table,
    \* controller stages automodel and loopmodel
    stage, clean_ali_exists, cde_ali_exists, input_model, task_files,
    current_best_pdb, engine_log, exit_code,
    \* automodel array tasks and the files they share
    INPUT_MODE, EXECUTION_PARADIGM, orchestrator_runs, auto_tasks,
    automodel_calls, input_dir, io_events

splitVars == <<NUM_MODELS_AUTO, NUM_SPLITTED_PROCESSES, exited, engine_calls>>
inputVars == <<aligned_template_seq, aligned_target_seq, seq_full, ss2_file,
               EXPERIMENTAL_FLANK_SIZE, REFINE_FLANKS_DURING_AUTOMODEL>>
regionVars == <<experimental_residues, flank_residues, truly_fixed_residues,
                all_coil, loop_ranges, automodel_fixed>>
refineVars == <<initial_models_names, valid_loop_ranges, loop_j, submitted>>
groupVars == <<residues, ranges, regrouped>>
readerVars == <<ss2_result, cde_result>>
aliVars == <<ali_file, ali_result, ali_reads>>
orchVars == <<RSR_INI_PRECALCULATION, NUM_MODELS_TO_REFINE, orch_pc, job_dep,
              task_state, task_exit>>
rankVars == <<work_dir, selected_for_refinement, NUM_BEST_FINAL_MODELS,
              evaluated, ranking_table>>
stageVars == <<stage, clean_ali_exists, cde_ali_exists, input_model,
               task_files, current_best_pdb, engine_log, exit_code>>

autoVars == <<INPUT_MODE, EXECUTION_PARADIGM, orchestrator_runs, auto_tasks,
              automodel_calls, input_dir, io_events>>

vars == <<pc, splitVars, inputVars, regionVars, refineVars, groupVars,
          readerVars, aliVars, orchVars, rankVars, stageVars, autoVars>>

(***************************************************************************)
(* Idle values of each area.                                               *)
(***************************************************************************)
SplitIdle ==
    /\ NUM_MODELS_AUTO = 1
    /\ NUM_SPLITTED_PROCESSES = 1
    /\ exited = {}
    /\ engine_calls = {}

InputIdle ==
    /\ aligned_template_seq = <<>>
    /\ aligned_target_seq = <<>>
    /\ seq_full = <<>>
    /\ ss2_file = <<>>
    /\ EXPERIMENTAL_FLANK_SIZE = 0
    /\ REFINE_FLANKS_DURING_AUTOMODEL = TRUE

RegionIdle ==
    /\ experimental_residues = {}
    /\ flank_residues = {}
    /\ truly_fixed_residues = {}
    /\ all_coil = {}
    /\ loop_ranges = <<>>
    /\ automodel_fixed = {}

RefineIdle ==
    /\ initial_models_names = <<>>
    /\ valid_loop_ranges = <<>>
    /\ loop_j = 0
    /\ submitted = <<>>

GroupIdle ==
    /\ residues = <<>>
    /\ ranges = <<>>
    /\ regrouped = <<>>

NoResult == [err |-> "unset", value |-> <<>>]

ReaderIdle ==
    /\ ss2_result = NoResult
    /\ cde_result = NoResult

AliIdle ==
    /\ ali_file = <<>>
    /\ ali_result = NoResult
    /\ ali_reads = <<>>

OrchIdle ==
    /\ RSR_INI_PRECALCULATION = FALSE
    /\ NUM_MODELS_TO_REFINE = 1
    /\ orch_pc = [next |-> 0, status |-> "idle"]
    /\ job_dep = <<>>
    /\ task_state = <<>>
    /\ task_exit = <<>>

RankIdle ==
    /\ work_dir = <<>>
    /\ selected_for_refinement = <<>>
    /\ NUM_BEST_FINAL_MODELS = 1
    /\ evaluated = <<>>
    /\ ranking_table = <<>>

StageIdle ==
    /\ stage = "idle"
    /\ clean_ali_exists = TRUE
    /\ cde_ali_exists = TRUE
    /\ input_model = <<>>
    /\ task_files = <<>>
    /\ current_best_pdb = <<>>
    /\ engine_log = <<>>
    /\ exit_code = -1

AutoIdle ==
    /\ INPUT_MODE = "normal"
    /\ EXECUTION_PARADIGM = "normal"
    /\ orchestrator_runs = 0
    /\ auto_tasks = <<>>
    /\ automodel_calls = <<>>
    /\ input_dir = <<>>
    /\ io_events = {}

LaterIdle == AliIdle /\ OrchIdle /\ RankIdle /\ StageIdle /\ AutoIdle

(***************************************************************************)
(* General helpers.                                                        *)
(***************************************************************************)
Range(s) == {s[i] : i \in 1..Len(s)}

Min(a, b) == IF a <= b THEN a ELSE b

SeqsUpTo(S, n) == UNION {[1..k -> S] : k \in 0..n}

\* the integers covered by a list of (start, end) pairs
Flatten(rs) == UNION {rs[i][1]..rs[i][2] : i \in 1..Len(rs)}

(***************************************************************************)
(* automodel stage: job splitting (PRISM_READY_TO_RUN controller.main).    *)
(***************************************************************************)
\* math.ceil(a / b) for positive integers
ceil_div_floor(a, b) == a \div b

ceil_div(a, b) == (a + b - 1) \div b

models_per_job == ceil_div(NUM_MODELS_AUTO, NUM_SPLITTED_PROCESSES)

job_start(job_id) == (job_id - 1) * models_per_job + 1

job_end(job_id) == Min(job_id * models_per_job, NUM_MODELS_AUTO)

SplitInit ==
    /\ pc = "split"
    /\ NUM_MODELS_AUTO \in 1..MaxModels
    /\ NUM_SPLITTED_PROCESSES \in 1..MaxJobs
    /\ exited = {}
    /\ engine_calls = {}
    /\ InputIdle /\ RegionIdle /\ RefineIdle /\ GroupIdle /\ ReaderIdle
    /\ LaterIdle

\* controller.main --stage automodel --job-id job_id, followed by
\* run_automodel(start, end): an empty slot (start > end) returns without
\* an engine call.
AutomodelStage(job_id) ==
    /\ pc = "split"
    /\ job_id \notin exited
    /\ LET start == job_start(job_id)
           end == job_end(job_id)
       IN engine_calls' = IF start > end
                          THEN engine_calls
                          ELSE engine_calls \cup
                               {[job_id |-> job_id, starting_model |-> start,
                                 ending_model |-> end]}
    /\ exited' = exited \cup {job_id}
    /\ UNCHANGED <<pc, NUM_MODELS_AUTO, NUM_SPLITTED_PROCESSES>>
    /\ UNCHANGED <<inputVars, regionVars, refineVars, groupVars, readerVars>>
    /\ UNCHANGED <<aliVars, orchVars, rankVars, stageVars, autoVars>>

SplitNext == \E job_id \in 1..NUM_SPLITTED_PROCESSES : AutomodelStage(job_id)

SpecSplit == SplitInit /\ [][SplitNext]_vars

AllJobsExited == exited = 1..NUM_SPLITTED_PROCESSES

ModelsOf(call) == call.starting_model..call.ending_model

\* C2: the model ranges requested by the array tasks job_id = 1..
\* NUM_SPLITTED_PROCESSES are pairwise disjoint, and once every task has
\* exited their union is exactly 1..NUM_MODELS_AUTO (no gap, no overlap).
JobSplitCoverage ==
    /\ \A c1, c2 \in engine_calls :
          c1 # c2 => ModelsOf(c1) \cap ModelsOf(c2) = {}
    /\ \A c \in engine_calls : c.starting_model <= c.ending_model
    /\ AllJobsExited =>
          UNION {ModelsOf(c) : c \in engine_calls} = 1..NUM_MODELS_AUTO

\* every task has exited, one slot was empty and one task got several models
JobSplitWitness ==
    /\ AllJobsExited
    /\ Cardinality(engine_calls) < NUM_SPLITTED_PROCESSES
    /\ \E c \in engine_calls : c.ending_model > c.starting_model
    /\ Cardinality(engine_calls) >= 2

(***************************************************************************)
(* Range Grouper (group_ranges).                                           *)
(***************************************************************************)
\* sorted(set(residues))
RECURSIVE sorted(_)
sorted(S) ==
    IF S = {} THEN <<>>
    ELSE LET m == CHOOSE x \in S : \A y \in S : x <= y
         IN <<m>> \o sorted(S \ {m})

\* list(a_set): the elements in some order
RECURSIVE list(_)
list(S) ==
    IF S = {} THEN <<>>
    ELSE LET x == CHOOSE y \in S : \A z \in S : z <= y
         IN <<x>> \o list(S \ {x})

extends_run_any(res, end) == res >= end + 1

extends_run_skip(res, end) == res = end + 2

\* `if res == end + 1`
extends_run(res, end) == res = end + 1

\* the for loop of group_ranges over residues[1:]
RECURSIVE group_loop(_, _, _, _)
group_loop(rest, start, end, acc) ==
    IF rest = <<>> THEN Append(acc, <<start, end>>)
    ELSE LET res == Head(rest)
         IN IF extends_run(res, end)
            THEN group_loop(Tail(rest), start, res, acc)
            ELSE group_loop(Tail(rest), res, res, Append(acc, <<start, end>>))

group_ranges(residue_list) ==
    IF residue_list = <<>> THEN <<>>
    ELSE LET s == sorted(Range(residue_list))
         IN group_loop(Tail(s), s[1], s[1], <<>>)

\* lists without repetition over a set: a finite set given in any order
Orderings(S) ==
    {s \in SeqsUpTo(S, Cardinality(S)) :
        \A i, j \in 1..Len(s) : i # j => s[i] # s[j]}

GroupInit ==
    /\ pc = "group"
    /\ residues \in Orderings(0..MaxResidue - 1)
    /\ ranges = <<>>
    /\ regrouped = <<>>
    /\ SplitIdle /\ InputIdle /\ RegionIdle /\ RefineIdle /\ ReaderIdle
    /\ LaterIdle

GroupRanges ==
    /\ pc = "group"
    /\ ranges' = group_ranges(residues)
    /\ pc' = "grouped"
    /\ UNCHANGED <<residues, regrouped>>
    /\ UNCHANGED <<splitVars, inputVars, regionVars, refineVars, readerVars>>
    /\ UNCHANGED <<aliVars, orchVars, rankVars, stageVars, autoVars>>

\* group_ranges applied to the residues covered by a previous result
RegroupFlattened ==
    /\ pc = "grouped"
    /\ regrouped' = group_ranges(list(Flatten(ranges)))
    /\ pc' = "regrouped"
    /\ UNCHANGED <<residues, ranges>>
    /\ UNCHANGED <<splitVars, inputVars, regionVars, refineVars, readerVars>>
    /\ UNCHANGED <<aliVars, orchVars, rankVars, stageVars, autoVars>>

GroupNext == GroupRanges \/ RegroupFlattened

SpecGroup == GroupInit /\ [][GroupNext]_vars

\* C7: group_ranges returns the maximal contiguous runs of its input: pairs
\* with start <= end, ascending, each next start at least previous end + 2,
\* covering exactly the input set; the empty list gives the empty list.
GroupRangesMaximalRuns ==
    pc = "grouped" =>
        /\ \A i \in 1..Len(ranges) : ranges[i][1] <= ranges[i][2]
        /\ \A i \in 1..Len(ranges) - 1 : ranges[i + 1][1] >= ranges[i][2] + 2
        /\ Flatten(ranges) = Range(residues)
        /\ (residues = <<>> => ranges = <<>>)

\* an unsorted input with a run of two or more and a separate later run
GroupRangesWitness ==
    /\ pc = "grouped"
    /\ Len(ranges) >= 2
    /\ \E i \in 1..Len(ranges) : ranges[i][1] < ranges[i][2]
    /\ \E i \in 1..Len(residues) - 1 : residues[i] > residues[i + 1]

\* C8: grouping the residues covered by group_ranges(S) gives the same list
\* of ranges again.
GroupRangesIdempotent == pc = "regrouped" => regrouped = ranges

GroupIdempotentWitness ==
    /\ pc = "regrouped"
    /\ Len(regrouped) >= 2
    /\ \E i \in 1..Len(regrouped) : regrouped[i][1] < regrouped[i][2]

(***************************************************************************)
(* Region Classifier (identify_experimental_residues).                     *)
(***************************************************************************)
\* the characters of an aligned sequence: amino acid, gap, blocked marker,
\* chain break
AlignChars == {"A", "-", ".", "/"}

skip_column_blk_only(template_res) == template_res = "."

\* `if template_res == '.' or template_res == '/': continue`
skip_column(template_res) == template_res = "." \/ template_res = "/"

\* the lockstep walk over zip(aligned_template_seq, aligned_target_seq)
RECURSIVE identify_walk(_, _, _, _, _)
identify_walk(tmpl, targ, i, target_res_num, acc) ==
    IF i > Len(tmpl) THEN acc
    ELSE IF skip_column(tmpl[i])
    THEN identify_walk(tmpl, targ, i + 1, target_res_num, acc)
    ELSE LET n == IF targ[i] # "-" THEN target_res_num + 1
                  ELSE target_res_num
         IN identify_walk(tmpl, targ, i + 1, n,
                          IF tmpl[i] # "-" /\ targ[i] # "-"
                          THEN acc \cup {n} ELSE acc)

identify_experimental_residues(tmpl, targ) ==
    IF Len(tmpl) # Len(targ)
    THEN [err |-> "ValueError", value |-> {}]
    ELSE [err |-> "none", value |-> identify_walk(tmpl, targ, 1, 0, {})]

ClassifyInit ==
    /\ pc = "classify"
    /\ \E n \in 0..MaxCols :
          /\ aligned_template_seq \in [1..n -> AlignChars]
          /\ aligned_target_seq \in [1..n -> AlignChars]
    /\ seq_full = <<>>
    /\ ss2_file = <<>>
    /\ EXPERIMENTAL_FLANK_SIZE = 0
    /\ REFINE_FLANKS_DURING_AUTOMODEL = TRUE
    /\ SplitIdle /\ RegionIdle /\ RefineIdle /\ GroupIdle /\ ReaderIdle
    /\ LaterIdle

IdentifyExperimental ==
    /\ pc = "classify"
    /\ LET r == identify_experimental_residues(aligned_template_seq,
                                               aligned_target_seq)
       IN /\ experimental_residues' = r.value
          /\ pc' = IF r.err = "none" THEN "classified" ELSE r.err
    /\ UNCHANGED <<flank_residues, truly_fixed_residues, all_coil,
                   loop_ranges, automodel_fixed>>
    /\ UNCHANGED <<splitVars, inputVars, refineVars, groupVars, readerVars>>
    /\ UNCHANGED <<aliVars, orchVars, rankVars, stageVars, autoVars>>

ClassifyNext == IdentifyExperimental

SpecClassify == ClassifyInit /\ [][ClassifyNext]_vars

\* c(i): the columns j <= i whose template character is neither '.' nor '/'
\* and whose target character is not a gap
CountedColumns(i) ==
    Cardinality({j \in 1..i :
        /\ aligned_template_seq[j] \notin {".", "/"}
        /\ aligned_target_seq[j] # "-"})

RealTemplateColumn(i) == aligned_template_seq[i] \notin {"-", ".", "/"}

\* C3: the result is exactly { c(i) : template[i] is a real residue and
\* target[i] is not a gap }; a template-gap column is never inserted.
LockstepWalk ==
    pc = "classified" =>
        experimental_residues =
            {CountedColumns(i) : i \in {k \in 1..Len(aligned_template_seq) :
                /\ RealTemplateColumn(k)
                /\ aligned_target_seq[k] # "-"}}

\* a walk over a template with a gap, a skipped column and a real residue
LockstepWitness ==
    /\ pc = "classified"
    /\ experimental_residues # {}
    /\ \E i \in 1..Len(aligned_template_seq) : aligned_template_seq[i] = "-"
    /\ \E i \in 1..Len(aligned_template_seq) :
          /\ aligned_template_seq[i] \in {".", "/"}
          /\ aligned_target_seq[i] # "-"

\* the column of the k-th non-gap character of the aligned target
TargetColumnOf(k) ==
    CHOOSE i \in 1..Len(aligned_target_seq) :
        /\ aligned_target_seq[i] # "-"
        /\ Cardinality({j \in 1..i : aligned_target_seq[j] # "-"}) = k

\* C4: every returned k is a target residue position, i.e. the k-th non-gap
\* character of the aligned target is in a column with a real template
\* residue.
ResultIsTargetPosition ==
    pc = "classified" =>
        \A k \in experimental_residues : RealTemplateColumn(TargetColumnOf(k))

(***************************************************************************)
(* Secondary-Structure Reader (read_ss2_file, get_coil_residues).          *)
(*                                                                         *)
(* A line of the prediction file is modelled by what the reader looks at:  *)
(* "#" a comment line, "" an empty line, "short" a line with fewer than    *)
(* three fields, and otherwise the label character in its third field.     *)
(***************************************************************************)
Ss2SkippedLines == {"#", "", "short"}

Ss2Labels == {"H", "C"}

\* the lines that pass `line.strip() and not line.startswith('#') and
\* len(line.split()) >= 3` contribute `line.split()[2]`
RECURSIVE ss2_join(_)
ss2_join(lines) ==
    IF lines = <<>> THEN <<>>
    ELSE (IF Head(lines) \in Ss2SkippedLines THEN <<>> ELSE <<Head(lines)>>)
         \o ss2_join(Tail(lines))

RECURSIVE lstrip_dot(_)
lstrip_dot(s) == IF s # <<>> /\ Head(s) = "." THEN lstrip_dot(Tail(s)) ELSE s

RECURSIVE rstrip_dot(_)
rstrip_dot(s) ==
    IF s # <<>> /\ s[Len(s)] = "."
    THEN rstrip_dot(SubSeq(s, 1, Len(s) - 1)) ELSE s

\* str.strip('.')
strip_dot(s) == rstrip_dot(lstrip_dot(s))

Dots(n) == [i \in 1..n |-> "."]

missing_part_never_checked(seq, len_ss) == FALSE

\* `if seq_full[len_ss:].strip('.')`
missing_part_has_residues(seq, len_ss) ==
    strip_dot(SubSeq(seq, len_ss + 1, Len(seq))) # <<>>

read_ss2_file(lines, seq) ==
    LET ss_string == ss2_join(lines)
        len_ss == Len(ss_string)
        len_seq == Len(seq)
    IN IF len_ss > len_seq
       THEN [err |-> "ValueError", value |-> <<>>]
       ELSE IF len_ss < len_seq
       THEN IF missing_part_has_residues(seq, len_ss)
            THEN [err |-> "ValueError", value |-> <<>>]
            ELSE [err |-> "none",
                  value |-> SubSeq(ss_string \o Dots(len_seq - len_ss),
                                   1, len_seq)]
       ELSE [err |-> "none", value |-> SubSeq(ss_string, 1, len_seq)]

get_coil_residues(lines, seq) ==
    LET r == read_ss2_file(lines, seq)
    IN IF r.err # "none" THEN [err |-> r.err, value |-> {}]
       ELSE IF Len(seq) # Len(r.value)
       THEN [err |-> "ValueError", value |-> {}]
       ELSE [err |-> "none",
             value |-> {i \in 1..Len(r.value) : r.value[i] = "C"}]

Ss2Init ==
    /\ pc = "ss2"
    /\ seq_full \in SeqsUpTo({"A", "."}, MaxSeqFull)
    /\ ss2_file \in SeqsUpTo(Ss2Labels \cup {"#", "short"}, MaxSeqFull)
    /\ aligned_template_seq = <<>>
    /\ aligned_target_seq = <<>>
    /\ EXPERIMENTAL_FLANK_SIZE = 0
    /\ REFINE_FLANKS_DURING_AUTOMODEL = TRUE
    /\ SplitIdle /\ RegionIdle /\ RefineIdle /\ GroupIdle /\ ReaderIdle
    /\ LaterIdle

ReadSs2File ==
    /\ pc = "ss2"
    /\ ss2_result' = read_ss2_file(ss2_file, seq_full)
    /\ pc' = "ss2_read"
    /\ UNCHANGED cde_result
    /\ UNCHANGED <<splitVars, inputVars, regionVars, refineVars, groupVars>>
    /\ UNCHANGED <<aliVars, orchVars, rankVars, stageVars, autoVars>>

Ss2Next == ReadSs2File

SpecSs2 == Ss2Init /\ [][Ss2Next]_vars

\* the label characters of the file, in order
FileLabels == SelectSeq(ss2_file, LAMBDA l : l \notin Ss2SkippedLines)

\* C9: with more labels than L = len(seq_full) the read fails; with exactly L
\* the labels are returned unchanged; with L-k labels it succeeds iff the
\* last k characters of seq_full are all '.', returning the labels padded
\* with k '.'; every successful result has length L.
Ss2LengthValidation ==
    pc = "ss2_read" =>
        LET L == Len(seq_full)
            n == Len(FileLabels)
            tailBlocked == \A i \in n + 1..L : seq_full[i] = "."
        IN /\ n > L => ss2_result.err = "ValueError"
           /\ n = L => ss2_result = [err |-> "none", value |-> FileLabels]
           /\ n < L => (ss2_result.err = "none" <=> tailBlocked)
           /\ (n < L /\ tailBlocked) =>
                 ss2_result.value = FileLabels \o [i \in 1..L - n |-> "."]
           /\ ss2_result.err = "none" => Len(ss2_result.value) = L

\* a short label string accepted and padded over a blocked tail
Ss2PaddingWitness ==
    /\ pc = "ss2_read"
    /\ ss2_result.err = "none"
    /\ Len(FileLabels) >= 1
    /\ Len(seq_full) >= Len(FileLabels) + 2
    /\ \E i \in 1..Len(ss2_file) : ss2_file[i] \in Ss2SkippedLines

(***************************************************************************)
(* Flank/Loop Calculator: run_prerequisites (PRISM_READY_TO_RUN) and the   *)
(* loop detection and loop refinement of main_workflow (PRISM).            *)
(***************************************************************************)
flank_of_range_unguarded(start, end, N) ==
    {start + i : i \in 0..N - 1} \cup {end - i : i \in 0..N - 1}

\* the two `for i in range(N)` loops over one experimental range
flank_of_range(start, end, N) ==
    {start + i : i \in {k \in 0..N - 1 : start + k <= end}}
        \cup {end - i : i \in {k \in 0..N - 1 : end - k >= start}}

flank_of(experimental_ranges, N) ==
    UNION {flank_of_range(experimental_ranges[r][1],
                          experimental_ranges[r][2], N) :
              r \in 1..Len(experimental_ranges)}

refinable_all_coil(coil, truly_fixed) == coil

\* `refinable_residues = all_coil - truly_fixed_residues`
refinable_residues(coil, truly_fixed) == coil \ truly_fixed

\* the loop-detection block shared by run_prerequisites and main_workflow
LoopDetection(experimental) ==
    LET coil == get_coil_residues(ss2_file, seq_full)
        experimental_ranges == group_ranges(list(experimental))
        flank == flank_of(experimental_ranges, EXPERIMENTAL_FLANK_SIZE)
        truly_fixed == experimental \ flank
    IN [err |-> coil.err,
        all_coil |-> coil.value,
        flank_residues |-> flank,
        truly_fixed_residues |-> truly_fixed,
        loop_ranges |->
            group_ranges(list(refinable_residues(coil.value, truly_fixed)))]

FlankInit ==
    /\ pc = "start"
    /\ \E n \in 1..MaxLen :
          /\ aligned_template_seq \in [1..n -> {"A", "-"}]
          /\ aligned_target_seq = [i \in 1..n |-> "A"]
          /\ ss2_file \in [1..n -> Ss2Labels]
    /\ seq_full = aligned_target_seq
    /\ EXPERIMENTAL_FLANK_SIZE \in 0..MaxFlank
    /\ REFINE_FLANKS_DURING_AUTOMODEL \in BOOLEAN
    /\ SplitIdle /\ RegionIdle /\ RefineIdle /\ GroupIdle /\ ReaderIdle
    /\ LaterIdle

\* run_prerequisites of PRISM_READY_TO_RUN, from the sequences of the
\* annotated alignment on; a failure of either block ends in sys.exit(1)
RunPrerequisites ==
    /\ pc = "start"
    /\ LET e == identify_experimental_residues(aligned_template_seq,
                                               aligned_target_seq)
           d == LoopDetection(e.value)
       IN IF e.err # "none" \/ d.err # "none"
          THEN /\ pc' = "exit1"
               /\ UNCHANGED regionVars
          ELSE /\ pc' = "prereq_done"
               /\ experimental_residues' = e.value
               /\ all_coil' = d.all_coil
               /\ flank_residues' = d.flank_residues
               /\ truly_fixed_residues' = d.truly_fixed_residues
               /\ loop_ranges' = d.loop_ranges
               /\ automodel_fixed' = IF REFINE_FLANKS_DURING_AUTOMODEL
                                     THEN d.truly_fixed_residues
                                     ELSE e.value
    /\ UNCHANGED <<splitVars, inputVars, refineVars, groupVars, readerVars>>
    /\ UNCHANGED <<aliVars, orchVars, rankVars, stageVars, autoVars>>

\* main_workflow of PRISM, steps 2 and 3: experimental residues and loops
MainWorkflowDetect ==
    /\ pc = "start"
    /\ LET e == identify_experimental_residues(aligned_template_seq,
                                               aligned_target_seq)
           d == LoopDetection(e.value)
       IN IF e.err # "none" \/ d.err # "none"
          THEN /\ pc' = "exit1"
               /\ UNCHANGED regionVars
          ELSE /\ pc' = "automodel"
               /\ experimental_residues' = e.value
               /\ all_coil' = d.all_coil
               /\ flank_residues' = d.flank_residues
               /\ truly_fixed_residues' = d.truly_fixed_residues
               /\ loop_ranges' = d.loop_ranges
               /\ automodel_fixed' = e.value
    /\ UNCHANGED <<splitVars, inputVars, refineVars, groupVars, readerVars>>
    /\ UNCHANGED <<aliVars, orchVars, rankVars, stageVars, autoVars>>

MIN_LOOP_LENGTH == 4

MAX_LOOP_LENGTH == 1000

\* `[r for r in loop_ranges if 4 <= (r[1] - r[0] + 1) <= 1000]`
length_filter(rs) ==
    SelectSeq(rs, LAMBDA r : /\ MIN_LOOP_LENGTH <= r[2] - r[1] + 1
                             /\ r[2] - r[1] + 1 <= MAX_LOOP_LENGTH)

\* main_workflow steps 4 and 5: run_automodel returns the initial models and
\* run_loop_refinement(initial_models_names, loop_ranges_to_refine,
\* truly_fixed_residues) starts
StartLoopRefinement(names) ==
    /\ pc = "automodel"
    /\ initial_models_names' = names
    /\ valid_loop_ranges' = length_filter(loop_ranges)
    /\ loop_j' = 1
    /\ pc' = IF names = <<>> \/ loop_ranges = <<>>
                \/ length_filter(loop_ranges) = <<>>
             THEN "done" ELSE "refine"
    /\ UNCHANGED submitted
    /\ UNCHANGED <<splitVars, inputVars, regionVars, groupVars, readerVars>>
    /\ UNCHANGED <<aliVars, orchVars, rankVars, stageVars, autoVars>>

\* one iteration of `for j, (start, end) in enumerate(valid_loop_ranges)`:
\* FixedRegionLoopRefiner raises ValueError when the loop overlaps the set it
\* is given (the loop is skipped); otherwise ml.make() runs the engine on it
RefineLoop ==
    /\ pc = "refine"
    /\ LET r == valid_loop_ranges[loop_j]
           overlap == (r[1]..r[2]) \cap truly_fixed_residues
       IN submitted' = IF overlap # {} THEN submitted
                       ELSE Append(submitted, r)
    /\ loop_j' = loop_j + 1
    /\ pc' = IF loop_j = Len(valid_loop_ranges) THEN "done" ELSE "refine"
    /\ UNCHANGED <<initial_models_names, valid_loop_ranges>>
    /\ UNCHANGED <<splitVars, inputVars, regionVars, groupVars, readerVars>>
    /\ UNCHANGED <<aliVars, orchVars, rankVars, stageVars, autoVars>>

FlankNext ==
    \/ RunPrerequisites
    \/ MainWorkflowDetect
    \/ \E names \in {<<>>, <<"AUTO_1.pdb">>} : StartLoopRefinement(names)
    \/ RefineLoop

SpecFlank == FlankInit /\ [][FlankNext]_vars

\* C1: no loop range submitted to the engine by run_loop_refinement contains
\* a residue of the experimental set identified from the main template.
ExperimentalNeverRefined ==
    \A i \in 1..Len(submitted) :
        (submitted[i][1]..submitted[i][2]) \cap experimental_residues = {}

\* the maximal contiguous experimental ranges, as sets
IsExperimentalRange(s, e) ==
    /\ s <= e
    /\ (s..e) \subseteq experimental_residues
    /\ s - 1 \notin experimental_residues
    /\ e + 1 \notin experimental_residues

\* C5: within every maximal experimental range [s,e] the flank set is the
\* first and the last min(N, e-s+1) positions and the deep-fixed set is
\* s+N..e-N; the two are disjoint and together are the experimental set.
FlankDeepFixedPartition ==
    pc = "prereq_done" =>
        LET N == EXPERIMENTAL_FLANK_SIZE
        IN /\ \A s, e \in 1..Len(aligned_target_seq) :
                 IsExperimentalRange(s, e) =>
                    LET w == Min(N, e - s + 1)
                    IN /\ flank_residues \cap (s..e) =
                             (s..s + w - 1) \cup (e - w + 1..e)
                       /\ truly_fixed_residues \cap (s..e) = s + N..e - N
                       /\ (e - s + 1 <= 2 * N =>
                             truly_fixed_residues \cap (s..e) = {})
           /\ truly_fixed_residues \cap flank_residues = {}
           /\ truly_fixed_residues \cup flank_residues = experimental_residues

\* a long range with a non-empty core next to a short range that is all flank
FlankPartitionWitness ==
    /\ pc = "prereq_done"
    /\ EXPERIMENTAL_FLANK_SIZE = 1
    /\ \E s, e \in 1..Len(aligned_target_seq) :
          IsExperimentalRange(s, e) /\ e - s + 1 > 2
    /\ \E s, e \in 1..Len(aligned_target_seq) :
          IsExperimentalRange(s, e) /\ e - s + 1 <= 2
    /\ truly_fixed_residues # {}

\* C6: the loop ranges of run_prerequisites cover every coil residue that is
\* not deep-fixed (every coil flank residue among them) and no deep-fixed
\* residue.
LoopRangesAreRefinable ==
    pc = "prereq_done" =>
        /\ Flatten(loop_ranges) = all_coil \ truly_fixed_residues
        /\ (flank_residues \cap all_coil) \subseteq Flatten(loop_ranges)
        /\ Flatten(loop_ranges) \cap truly_fixed_residues = {}
        /\ all_coil = {i \in 1..Len(ss2_file) : ss2_file[i] = "C"}

\* coil residues inside the deep-fixed core, and a coil flank residue kept
LoopRangesWitness ==
    /\ pc = "prereq_done"
    /\ all_coil \cap truly_fixed_residues # {}
    /\ all_coil \cap flank_residues # {}
    /\ loop_ranges # <<>>

(***************************************************************************)
(* Annotator (add_cde_line_to_pir of PRISM_READY_TO_RUN).                  *)
(***************************************************************************)
\* `if char in ('-', '/', '.')`
emits_blocked_marker(char) == char \in {"-", "/", "."}

\* the loop `for char in align_target` building cde_chars
RECURSIVE cde_walk(_, _, _, _, _)
cde_walk(align_target, i, ss2_string, ss_idx, cde_chars) ==
    IF i > Len(align_target)
    THEN [err |-> "none", value |-> cde_chars]
    ELSE IF emits_blocked_marker(align_target[i])
    THEN cde_walk(align_target, i + 1, ss2_string, ss_idx,
                  Append(cde_chars, "."))
    ELSE IF ss_idx < Len(ss2_string)
    THEN cde_walk(align_target, i + 1, ss2_string, ss_idx + 1,
                  Append(cde_chars, ss2_string[ss_idx + 1]))
    ELSE [err |-> "IndexError", value |-> <<>>]

\* the annotation characters that follow "# CDE:", or the error raised
cde_line(lines, seq, align_target) ==
    LET ss2 == read_ss2_file(lines, seq)
    IN IF ss2.err # "none" THEN ss2
       ELSE cde_walk(align_target, 1, ss2.value, 0, <<>>)

\* the residues of an aligned sequence: gaps and chain breaks removed
Ungapped(s) == SelectSeq(s, LAMBDA c : c \notin {"-", "/"})

CdeInit ==
    /\ pc = "cde"
    /\ aligned_target_seq \in SeqsUpTo(AlignChars, MaxAliCols)
    /\ seq_full = Ungapped(aligned_target_seq)
    /\ ss2_file \in SeqsUpTo(Ss2Labels, MaxAliCols)
    /\ aligned_template_seq = <<>>
    /\ EXPERIMENTAL_FLANK_SIZE = 0
    /\ REFINE_FLANKS_DURING_AUTOMODEL = TRUE
    /\ SplitIdle /\ RegionIdle /\ RefineIdle /\ GroupIdle
    /\ LaterIdle
    /\ ss2_result = NoResult
    /\ cde_result = NoResult

AddCdeLineToPir ==
    /\ pc = "cde"
    /\ ss2_result' = read_ss2_file(ss2_file, seq_full)
    /\ cde_result' = cde_line(ss2_file, seq_full, aligned_target_seq)
    /\ pc' = "cde_done"
    /\ UNCHANGED <<splitVars, inputVars, regionVars, refineVars, groupVars>>
    /\ UNCHANGED <<aliVars, orchVars, rankVars, stageVars, autoVars>>

CdeNext == AddCdeLineToPir

SpecCde == CdeInit /\ [][CdeNext]_vars

\* the number of columns up to i that are neither gap nor chain break
ResidueColumns(i) ==
    Cardinality({j \in 1..i : aligned_target_seq[j] \notin {"-", "/"}})

\* C10: the annotation line has one character per alignment column; a '-' or
\* '/' column carries '.', and the i-th column that is neither gap nor chain
\* break (amino acid or blocked marker) carries the i-th label.
CdeLineFollowsLabels ==
    (pc = "cde_done" /\ cde_result.err = "none") =>
        /\ Len(cde_result.value) = Len(aligned_target_seq)
        /\ \A i \in 1..Len(aligned_target_seq) :
              IF aligned_target_seq[i] \in {"-", "/"}
              THEN cde_result.value[i] = "."
              ELSE /\ ResidueColumns(i) <= Len(ss2_result.value)
                   /\ cde_result.value[i] = ss2_result.value[ResidueColumns(i)]

(***************************************************************************)
(* Alignment Reader (PRISM_READY_TO_RUN utils.read_sequences_from_ali).    *)
(*                                                                         *)
(* A file is a sequence of stripped lines.  A line is a record: a header   *)
(* ">P1;<code>", a descriptor ("structureX:..." or "sequence:..."), a      *)
(* comment ("# CDE: ...") or a line of residues with its characters.       *)
(***************************************************************************)
MaxAliLines == 4

AliCodes == {"", "tmpl", "FullSeq"}

HeaderLine(c) == [kind |-> "header", code |-> c, text |-> <<>>]

DescriptorLine == [kind |-> "descriptor", code |-> "", text |-> <<>>]

CommentLine == [kind |-> "comment", code |-> "", text |-> <<>>]

ResidueLine(t) == [kind |-> "residues", code |-> "", text |-> t]

\* residue lines: one residue, lower case with a blank and a gap, a line
\* that starts with Cys-Asp-Glu, blocked marker and chain break with the
\* terminator
ResidueTexts ==
    {<<"A">>, <<"a", " ", "-">>, <<"C", "D", "E">>, <<".", "/", "*">>}

AliLines ==
    {HeaderLine(c) : c \in AliCodes} \cup {DescriptorLine, CommentLine}
        \cup {ResidueLine(t) : t \in ResidueTexts}

\* str.startswith
starts_with(text, prefix) ==
    /\ Len(text) >= Len(prefix)
    /\ SubSeq(text, 1, Len(prefix)) = prefix

\* line.startswith(('structure', 'sequence', 'CDE', '#'))
skipped_line(line) ==
    \/ line.kind \in {"descriptor", "comment"}
    \/ starts_with(line.text, <<"C", "D", "E">>)

\* str.upper on one character
upper(c) ==
    CASE c = "a" -> "A"
      [] c = "c" -> "C"
      [] c = "d" -> "D"
      [] c = "e" -> "E"
      [] OTHER -> c

\* the characters re.sub(r'[^A-Z\-\.\/]', '', ...) keeps
kept_char(c) == c \in {"A", "C", "D", "E", "-", ".", "/"}

clean(text) ==
    SelectSeq([i \in 1..Len(text) |-> upper(text[i])], kept_char)

\* sequences[code] = value
dict_set(d, code, value) ==
    [k \in DOMAIN d \cup {code} |-> IF k = code THEN value ELSE d[k]]

\* the loop over the lines and the flush after it; current_code is "" for
\* None (both are false in a condition)
RECURSIVE ali_walk(_, _, _, _, _)
ali_walk(lines, i, sequences, current_code, current_seq_parts) ==
    IF i > Len(lines)
    THEN IF current_code # ""
         THEN dict_set(sequences, current_code, current_seq_parts)
         ELSE sequences
    ELSE IF lines[i].kind = "header"
    THEN ali_walk(lines, i + 1,
                  IF current_code # ""
                  THEN dict_set(sequences, current_code, current_seq_parts)
                  ELSE sequences,
                  lines[i].code, <<>>)
    ELSE IF current_code # "" /\ ~skipped_line(lines[i])
    THEN ali_walk(lines, i + 1, sequences, current_code,
                  current_seq_parts \o lines[i].text)
    ELSE ali_walk(lines, i + 1, sequences, current_code, current_seq_parts)

read_sequences_from_ali(lines) ==
    LET sequences == ali_walk(lines, 1, <<>>, "", <<>>)
        clean_map == [k \in DOMAIN sequences |-> clean(sequences[k])]
        lengths == {Len(clean_map[k]) : k \in DOMAIN clean_map}
    IN IF Cardinality(lengths) > 1
       THEN [err |-> "IOError", value |-> <<>>]
       ELSE [err |-> "none", value |-> clean_map]

AliInit ==
    /\ pc = "ali"
    /\ ali_file \in SeqsUpTo(AliLines, MaxAliLines)
    /\ ali_result = NoResult
    /\ ali_reads = <<>>
    /\ SplitIdle /\ InputIdle /\ RegionIdle /\ RefineIdle /\ GroupIdle
    /\ ReaderIdle /\ OrchIdle /\ RankIdle /\ StageIdle /\ AutoIdle

ReadSequencesFromAli ==
    /\ pc = "ali"
    /\ ali_result' = read_sequences_from_ali(ali_file)
    /\ pc' = "ali_done"
    /\ UNCHANGED <<ali_file, ali_reads>>
    /\ UNCHANGED <<splitVars, inputVars, regionVars, refineVars, groupVars>>
    /\ UNCHANGED <<readerVars, orchVars, rankVars, stageVars, autoVars>>

AliNext == ReadSequencesFromAli

SpecAli == AliInit /\ [][AliNext]_vars

\* the header lines of the file; a block runs from its header to the line
\* before the next header
Blocks == {i \in 1..Len(ali_file) : ali_file[i].kind = "header"}

BlockEnd(i) ==
    IF \E j \in Blocks : j > i
    THEN (CHOOSE j \in Blocks : j > i /\ \A k \in Blocks : k > i => j <= k) - 1
    ELSE Len(ali_file)

RECURSIVE residue_chars(_, _)
residue_chars(i, last) ==
    IF i > last THEN <<>>
    ELSE (IF ali_file[i].kind = "residues" THEN ali_file[i].text ELSE <<>>)
             \o residue_chars(i + 1, last)

\* the residue characters of the block at header i, cleaned
BlockCleaned(i) == clean(residue_chars(i + 1, BlockEnd(i)))

\* C11: the reader either raises or returns a mapping whose strings all have
\* the same length, and it raises whenever the cleaned sequences of two
\* blocks of the file differ in length.
EqualLengthOrRaise ==
    pc = "ali_done" =>
        /\ ali_result.err = "none" =>
              \A k1, k2 \in DOMAIN ali_result.value :
                  Len(ali_result.value[k1]) = Len(ali_result.value[k2])
        /\ (\E b1, b2 \in Blocks :
                Len(BlockCleaned(b1)) # Len(BlockCleaned(b2)))
              => ali_result.err = "IOError"

\* every block has a code of its own
DistinctCodes ==
    \A b1, b2 \in Blocks :
        /\ ali_file[b1].code # ""
        /\ b1 # b2 => ali_file[b1].code # ali_file[b2].code

\* C12: in a file whose blocks have codes of their own, the string returned
\* for a block's code is the cleaned text of all residue lines of the block,
\* whatever characters a line starts with.
ReturnsAllResidueLines ==
    (pc = "ali_done" /\ ali_result.err = "none" /\ DistinctCodes) =>
        \A b \in Blocks :
            /\ ali_file[b].code \in DOMAIN ali_result.value
            /\ ali_result.value[ali_file[b].code] = BlockCleaned(b)

\* C13: a file without a parseable block fails; an empty mapping is never
\* returned.
NoBlockIsAnError ==
    pc = "ali_done" =>
        /\ (\A b \in Blocks : ali_file[b].code = "")
              => ali_result.err = "IOError"
        /\ ~(ali_result.err = "none" /\ DOMAIN ali_result.value = {})

(***************************************************************************)
(* Orchestrator (PRISM_READY_TO_RUN orchestrator.main) and the scheduler   *)
(* that runs the submitted jobs.  Stages: 1 prereq-cde, 2 automodel,       *)
(* 3 rank-automodel, 4 loopmodel, 5 final-rank.                            *)
(***************************************************************************)
MaxRefine == 2

Stages == 1..5

\* the dep_job_id handed to submit_slurm_job for each stage (0: none)
dep_of_skipping_rank(s) == IF s = 4 THEN 2 ELSE s - 1

dep_of(s) == s - 1

\* the array_range of each stage; a job without one has a single task
array_tasks(s) ==
    IF s = 2 /\ ~RSR_INI_PRECALCULATION THEN 1..NUM_SPLITTED_PROCESSES
    ELSE IF s = 4 THEN 1..NUM_MODELS_TO_REFINE
    ELSE {1}

task_exit_status_of_controller(s, controller_status, cleanup_status) ==
    controller_status

\* exit status of the wrapped command line: the commands are joined by ';',
\* so it is the status of the last one (the controller for stages 1, 3, 5,
\* "rmdir ... || true" for stage 2, "rm -r" for stage 4)
task_exit_status(s, controller_status, cleanup_status) ==
    IF s = 2 THEN 0
    ELSE IF s = 4 THEN cleanup_status
    ELSE controller_status

\* --dependency=afterok:<id>: every task of the job ran to completion with
\* exit status zero
dependency_satisfied(s) ==
    \/ job_dep[s] = 0
    \/ /\ job_dep[s] \in DOMAIN task_state
       /\ \A u \in DOMAIN task_state[job_dep[s]] :
              task_state[job_dep[s]][u] = "ok"

NoExit == [controller |-> -1, cleanup |-> -1]

OrchInit ==
    /\ pc = "orch"
    /\ RSR_INI_PRECALCULATION \in BOOLEAN
    /\ NUM_SPLITTED_PROCESSES \in 1..MaxJobs
    /\ NUM_MODELS_TO_REFINE \in 1..MaxRefine
    /\ NUM_MODELS_AUTO = 1 /\ exited = {} /\ engine_calls = {}
    /\ orch_pc = [next |-> 1, status |-> "running"]
    /\ job_dep = <<>>
    /\ task_state = <<>>
    /\ task_exit = <<>>
    /\ InputIdle /\ RegionIdle /\ RefineIdle /\ GroupIdle /\ ReaderIdle
    /\ AliIdle /\ RankIdle /\ StageIdle /\ AutoIdle

OrchUnchanged ==
    /\ UNCHANGED <<pc, RSR_INI_PRECALCULATION, NUM_MODELS_TO_REFINE>>
    /\ UNCHANGED <<splitVars, inputVars, regionVars, refineVars, groupVars>>
    /\ UNCHANGED <<readerVars, aliVars, rankVars, stageVars, autoVars>>

\* submit_slurm_job for the next stage; a failed sbatch ends the
\* orchestrator, and in precalculation mode it ends after stage 2
SubmitSlurmJob(sbatch_ok) ==
    /\ orch_pc.status = "running"
    /\ LET s == orch_pc.next
       IN IF sbatch_ok
          THEN /\ job_dep' = job_dep \o <<dep_of(s)>>
               /\ task_state' =
                      task_state \o <<[t \in array_tasks(s) |-> "pending"]>>
               /\ task_exit' =
                      task_exit \o <<[t \in array_tasks(s) |-> NoExit]>>
               /\ orch_pc' =
                      IF s = 5 THEN [next |-> s, status |-> "submitted"]
                      ELSE IF s = 2 /\ RSR_INI_PRECALCULATION
                      THEN [next |-> s, status |-> "exit0"]
                      ELSE [next |-> s + 1, status |-> "running"]
          ELSE /\ orch_pc' = [next |-> s, status |-> "exit1"]
               /\ UNCHANGED <<job_dep, task_state, task_exit>>
    /\ OrchUnchanged

\* the scheduler starts a pending task whose job's dependency is satisfied
StartTask(s, t) ==
    /\ s \in DOMAIN task_state
    /\ t \in DOMAIN task_state[s]
    /\ task_state[s][t] = "pending"
    /\ dependency_satisfied(s)
    /\ task_state' = [task_state EXCEPT ![s][t] = "running"]
    /\ UNCHANGED <<orch_pc, job_dep, task_exit>>
    /\ OrchUnchanged

\* the status of the cleanup that follows the controller in the command
\* of an array task: `rmdir ... 2>/dev/null || true` for stage 2, `rm -r`
\* for stage 4; the other stages have none
trailing_cleanup(s, cleanup_status) ==
    IF s = 2 THEN 0 ELSE IF s = 4 THEN cleanup_status ELSE -1

\* a running task exits with the status of its command line
ExitTask(s, t, controller_status, cleanup_status) ==
    /\ s \in DOMAIN task_state
    /\ t \in DOMAIN task_state[s]
    /\ task_state[s][t] = "running"
    /\ task_state' =
           [task_state EXCEPT ![s][t] =
               IF task_exit_status(s, controller_status, cleanup_status) = 0
               THEN "ok" ELSE "failed"]
    /\ task_exit' =
           [task_exit EXCEPT ![s][t] =
               [controller |-> controller_status,
                cleanup |-> trailing_cleanup(s, cleanup_status)]]
    /\ UNCHANGED <<orch_pc, job_dep>>
    /\ OrchUnchanged

OrchNext ==
    \/ \E sbatch_ok \in BOOLEAN : SubmitSlurmJob(sbatch_ok)
    \/ \E s \in Stages, t \in 1..(MaxJobs + MaxRefine) : StartTask(s, t)
    \/ \E s \in Stages, t \in 1..(MaxJobs + MaxRefine), c, r \in {0, 1} :
           ExitTask(s, t, c, r)

SpecOrch == OrchInit /\ [][OrchNext]_vars

Started(s) ==
    {t \in DOMAIN task_state[s] : task_state[s][t] # "pending"}

Exited(s) ==
    {t \in DOMAIN task_state[s] : task_state[s][t] \in {"ok", "failed"}}

\* C14: in the default mode every submitted stage after the first depends on
\* the stage before it, and no task of a stage has started unless every task
\* of the stage before it has exited.
StageOrdering ==
    (pc = "orch" /\ ~RSR_INI_PRECALCULATION) =>
        \A s \in DOMAIN task_state :
            s > 1 =>
                /\ job_dep[s] = s - 1
                /\ Started(s) # {} =>
                       Exited(s - 1) = DOMAIN task_state[s - 1]

\* the final-rank task runs after two array stages of more than one task
StageOrderingWitness ==
    /\ pc = "orch" /\ ~RSR_INI_PRECALCULATION
    /\ NUM_SPLITTED_PROCESSES > 1 /\ NUM_MODELS_TO_REFINE > 1
    /\ 5 \in DOMAIN task_state
    /\ task_state[5][1] = "running"

(***************************************************************************)
(* rank-automodel stage (PRISM_READY_TO_RUN utils.run_rank_automodel_models*)
(* ).  A directory is a function from file names to file contents.  A file *)
(* name is a record: "<base><num>.pdb", or "<base><num>_LOOP<loop>_R<r>.pdb"*)
(* when loop > 0.  A content carries the model it holds and the score the  *)
(* engine gives it.                                                        *)
(***************************************************************************)
MaxCandidates == 3

\* float('inf'): the score of a file that cannot be evaluated
inf == 1000000

Scores == {-9, -5, inf}

\* "FullSeq.B9999000<b>.pdb", written by the automodel stage
raw_name(b) == [base |-> "FullSeq.B", num |-> b, loop |-> 0, r |-> 0]

\* f"AUTO_{rank}.pdb"
auto_name(rank) == [base |-> "AUTO_", num |-> rank, loop |-> 0, r |-> 0]

\* a template input file of PDB_TEMPLATE_FILES_NAMES
template_name == [base |-> "tmpl", num |-> 0, loop |-> 0, r |-> 0]

\* MODEL_NAME="AUTO_${SLURM_ARRAY_TASK_ID}.pdb" of the loopmodel array
loop_task_model_name(task_id) == auto_name(task_id)

\* pattern ^FullSeq\.B[0-9]{5,}\.pdb$
matches_raw_pattern(name) == name.base = "FullSeq.B" /\ name.loop = 0

\* Path.iterdir / Path.glob: the names in an order of the file system
iterdir(S) == {s \in Orderings(S) : Len(s) = Cardinality(S)}

\* list.sort(key=score): stable, ascending
RECURSIVE insert_sorted(_, _)
insert_sorted(results, x) ==
    IF results = <<>> THEN <<x>>
    ELSE IF results[Len(results)].score <= x.score THEN Append(results, x)
    ELSE Append(insert_sorted(SubSeq(results, 1, Len(results) - 1), x),
                results[Len(results)])

RECURSIVE sort_by_score(_)
sort_by_score(results) ==
    IF results = <<>> THEN <<>>
    ELSE insert_sorted(sort_by_score(SubSeq(results, 1, Len(results) - 1)),
                       results[Len(results)])

marked_below(rank) == rank < NUM_MODELS_TO_REFINE

\* rank <= config.NUM_MODELS_TO_REFINE
marked_for_refinement(rank) == rank <= NUM_MODELS_TO_REFINE

RankInit ==
    /\ pc = "rank"
    /\ NUM_MODELS_TO_REFINE \in 1..MaxRefine
    /\ \E n \in 0..MaxCandidates, with_template \in BOOLEAN :
           \E score \in [1..n -> Scores] :
               work_dir =
                   [f \in {raw_name(b) : b \in 1..n}
                          \cup (IF with_template THEN {template_name} ELSE {})
                      |-> IF f = template_name
                          THEN [model |-> 0, score |-> -9]
                          ELSE [model |-> f.num, score |-> score[f.num]]]
    /\ selected_for_refinement = <<>>
    /\ NUM_BEST_FINAL_MODELS = 1
    /\ evaluated = <<>>
    /\ ranking_table = <<>>
    /\ RSR_INI_PRECALCULATION = FALSE
    /\ orch_pc = [next |-> 0, status |-> "idle"]
    /\ job_dep = <<>> /\ task_state = <<>> /\ task_exit = <<>>
    /\ SplitIdle /\ InputIdle /\ RegionIdle /\ RefineIdle /\ GroupIdle
    /\ ReaderIdle /\ AliIdle /\ StageIdle /\ AutoIdle

RankUnchanged ==
    /\ UNCHANGED <<NUM_BEST_FINAL_MODELS, ranking_table>>
    /\ UNCHANGED <<splitVars, inputVars, regionVars, refineVars, groupVars>>
    /\ UNCHANGED <<readerVars, aliVars, orchVars, stageVars, autoVars>>

\* raw_models is the directory listing in the order the file system gives;
\* failed holds the ranks whose rename raises OSError
RunRankAutomodelModels(raw_models, failed) ==
    /\ pc = "rank"
    /\ IF raw_models = <<>>
       THEN /\ pc' = "rank_exit1"
            /\ UNCHANGED <<work_dir, selected_for_refinement, evaluated>>
       ELSE LET results ==
                    sort_by_score([i \in 1..Len(raw_models) |->
                        [path |-> raw_models[i],
                         score |-> work_dir[raw_models[i]].score]])
                renamed == {k \in 1..Len(results) : k \notin failed}
                kept == DOMAIN work_dir \ {results[k].path : k \in renamed}
            IN /\ work_dir' =
                      [f \in kept \cup {auto_name(k) : k \in renamed} |->
                          IF f \in {auto_name(k) : k \in renamed}
                          THEN work_dir[results[f.num].path]
                          ELSE work_dir[f]]
               /\ selected_for_refinement' =
                      SelectSeq([k \in 1..Len(results) |-> auto_name(k)],
                                LAMBDA f : /\ f.num \in renamed
                                           /\ marked_for_refinement(f.num))
               /\ evaluated' = results
               /\ pc' = "ranked"
    /\ RankUnchanged

RankNext ==
    \E raw_models \in iterdir({f \in DOMAIN work_dir : matches_raw_pattern(f)}),
       failed \in SUBSET (1..MaxCandidates) :
        RunRankAutomodelModels(raw_models, failed)

SpecRank == RankInit /\ [][RankNext]_vars

RawFiles(dir) == {f \in DOMAIN dir : matches_raw_pattern(f)}

AutoFiles(dir) == {f \in DOMAIN dir : f.base = "AUTO_" /\ f.loop = 0}

\* C15: when every rename succeeds, the n candidates become AUTO_1 .. AUTO_n,
\* one rank per candidate and one candidate per rank, with scores that do
\* not decrease with the rank; the models marked for refinement are
\* AUTO_1 .. AUTO_min(K, n), the names loopmodel tasks 1..K look up.
RankAutomodelRenames ==
    [][(pc = "rank" /\ pc' = "ranked" /\ RawFiles(work_dir') = {}) =>
          LET n == Cardinality(RawFiles(work_dir))
              m == Min(NUM_MODELS_TO_REFINE, n)
          IN /\ AutoFiles(work_dir') = {auto_name(k) : k \in 1..n}
             /\ \A c \in RawFiles(work_dir) :
                    Cardinality({k \in 1..n :
                        work_dir'[auto_name(k)] = work_dir[c]}) = 1
             /\ \A k \in 1..n :
                    Cardinality({c \in RawFiles(work_dir) :
                        work_dir'[auto_name(k)] = work_dir[c]}) = 1
             /\ \A i, j \in 1..n :
                    i < j => work_dir'[auto_name(i)].score
                                 <= work_dir'[auto_name(j)].score
             /\ selected_for_refinement' = [k \in 1..m |-> auto_name(k)]
             /\ \A k \in 1..m :
                    selected_for_refinement'[k] = loop_task_model_name(k)]_vars

\* three candidates were renamed against their directory order and fewer
\* were marked than ranked
RankAutomodelWitness ==
    /\ pc = "ranked"
    /\ RawFiles(work_dir) = {}
    /\ Cardinality(AutoFiles(work_dir)) = 3
    /\ work_dir[auto_name(1)].model = 3
    /\ work_dir[auto_name(1)].score < work_dir[auto_name(2)].score
    /\ Len(selected_for_refinement) = 2

(***************************************************************************)
(* Controller stages automodel and loopmodel (PRISM_READY_TO_RUN           *)
(* controller.main, modeling_engine.run_loop_model).  task_files is the    *)
(* working directory of the task.  A content written by loop step j is     *)
(* [step |-> j, score |-> s]; the input model has step 0.                  *)
(***************************************************************************)
MaxLoops == 2

MaxLoopModels == 2

min_loop_length == 4

max_loop_length == 1000

\* x.get('DOPE-HR score', 9e9) of an output without a score; 9e9 is above
\* every score and so is this value
missing_score == 9000000

NoFile == [step |-> -1, score |-> 0]

LoopCandidates == {<<1, 4>>, <<6, 9>>, <<11, 12>>}

FixedCandidates == {5, 8}

\* the entries of ml.loop.outputs: a built model has a score and its
\* rename may fail; a failed model has neither score nor file
EngineOutputs ==
    {[score |-> s, renames |-> b] : s \in {-9, -5}, b \in BOOLEAN}
        \cup {[score |-> missing_score, renames |-> FALSE]}

\* f'{base_name}_LOOP{j+1}_R{m+1}.pdb', j and m counted from 1 here
loop_name(base_name, j, m) == [base_name EXCEPT !.loop = j, !.r = m]

valid_loops_above_minimum(rs) ==
    SelectSeq(rs, LAMBDA r : /\ min_loop_length < r[2] - r[1] + 1
                             /\ r[2] - r[1] + 1 <= max_loop_length)

valid_loops(rs) ==
    SelectSeq(rs, LAMBDA r : /\ min_loop_length <= r[2] - r[1] + 1
                             /\ r[2] - r[1] + 1 <= max_loop_length)

overlap_of_ends(start, end) == {start, end} \cap truly_fixed_residues

\* loop_res.intersection(experimental_residues)
overlap(start, end) == (start..end) \cap truly_fixed_residues

\* what run_prerequisites can return: ascending ranges of residues that are
\* not deep-fixed
from_prerequisites(rs, fixed) ==
    /\ \A i \in 1..Len(rs) - 1 : rs[i][2] < rs[i + 1][1]
    /\ Flatten(rs) \cap fixed = {}

StageInit ==
    /\ pc = "stage"
    /\ stage \in {"automodel", "loopmodel", "run_loop_model"}
    /\ clean_ali_exists \in BOOLEAN
    /\ cde_ali_exists \in BOOLEAN
    /\ stage = "run_loop_model" => clean_ali_exists /\ cde_ali_exists
    /\ \E present \in BOOLEAN :
           /\ stage = "automodel" => present
           /\ input_model = [name |-> auto_name(1), present |-> present]
           /\ task_files = IF present /\ stage # "automodel"
                           THEN auto_name(1) :> [step |-> 0, score |-> -5]
                           ELSE <<>>
    /\ loop_ranges \in {rs \in Orderings(LoopCandidates) : Len(rs) <= MaxLoops}
    /\ truly_fixed_residues \in SUBSET FixedCandidates
    /\ stage = "loopmodel" => from_prerequisites(loop_ranges, truly_fixed_residues)
    /\ stage = "automodel" => loop_ranges = <<>> /\ truly_fixed_residues = {}
    /\ experimental_residues = {} /\ flank_residues = {} /\ all_coil = {}
    /\ automodel_fixed = {}
    /\ initial_models_names = <<>> /\ submitted = <<>>
    /\ valid_loop_ranges = <<>>
    /\ loop_j = 0
    /\ current_best_pdb = <<>>
    /\ engine_log = <<>>
    /\ exit_code = -1
    /\ SplitIdle /\ InputIdle /\ GroupIdle /\ ReaderIdle
    /\ AliIdle /\ OrchIdle /\ RankIdle /\ AutoIdle

StageUnchanged ==
    /\ UNCHANGED <<stage, clean_ali_exists, cde_ali_exists, input_model>>
    /\ UNCHANGED <<loop_ranges, truly_fixed_residues, experimental_residues,
                   flank_residues, all_coil, automodel_fixed,
                   initial_models_names, submitted>>
    /\ UNCHANGED <<splitVars, inputVars, groupVars, readerVars>>
    /\ UNCHANGED <<aliVars, orchVars, rankVars, autoVars>>

\* run_prerequisites raises when an alignment file is absent and exits when
\* it cannot parse one
prerequisites_fail(parse_ok) ==
    ~clean_ali_exists \/ ~cde_ali_exists \/ ~parse_ok

\* the end of the stage: main prints "completed successfully" and the
\* process exits with 0; a direct call of run_loop_model returns
stage_end_pc == IF stage = "run_loop_model" THEN "returned" ELSE "stage_exited"

stage_end_code == IF stage = "run_loop_model" THEN exit_code ELSE 0

\* controller.main --stage automodel: run_prerequisites, then run_automodel;
\* an exception of either ends the process with status 1
ControllerAutomodel(parse_ok, engine_ok) ==
    /\ pc = "stage"
    /\ stage = "automodel"
    /\ exit_code' = IF prerequisites_fail(parse_ok) \/ ~engine_ok THEN 1 ELSE 0
    /\ pc' = "stage_exited"
    /\ UNCHANGED <<valid_loop_ranges, loop_j, current_best_pdb, task_files,
                   engine_log>>
    /\ StageUnchanged

\* run_loop_model up to its first loop step: the two early returns and the
\* length filter
run_loop_model_entry ==
    LET valid == valid_loops(loop_ranges)
    IN IF loop_ranges = <<>> \/ valid = <<>>
       THEN /\ pc' = stage_end_pc
            /\ exit_code' = stage_end_code
            /\ UNCHANGED <<valid_loop_ranges, loop_j, current_best_pdb>>
       ELSE /\ valid_loop_ranges' = valid
            /\ loop_j' = 1
            /\ current_best_pdb' = input_model.name
            /\ pc' = "loop"
            /\ UNCHANGED exit_code

\* controller.main --stage loopmodel --input-model <name>
ControllerLoopmodel(parse_ok) ==
    /\ pc = "stage"
    /\ stage = "loopmodel"
    /\ IF prerequisites_fail(parse_ok)
       THEN /\ exit_code' = 1
            /\ pc' = "stage_exited"
            /\ UNCHANGED <<valid_loop_ranges, loop_j, current_best_pdb>>
       ELSE run_loop_model_entry
    /\ UNCHANGED <<task_files, engine_log>>
    /\ StageUnchanged

\* run_loop_model called with arguments of its signature
RunLoopModel ==
    /\ pc = "stage"
    /\ stage = "run_loop_model"
    /\ run_loop_model_entry
    /\ UNCHANGED <<task_files, engine_log>>
    /\ StageUnchanged

\* the content of the best-scored model the engine built in loop step j
best_built(j, outputs) ==
    LET built == {i \in 1..Len(outputs) : outputs[i].score # missing_score}
    IN IF built = {} THEN NoFile
       ELSE LET b == CHOOSE i \in built :
                         \A k \in built : outputs[i].score <= outputs[k].score
            IN [step |-> j, score |-> outputs[b].score]

\* one pass of the loop over valid_loops: the constructor rejects a range
\* that overlaps the fixed residues; ml.make() raises when the input file
\* is absent or the engine fails (raises); otherwise ml.loop.outputs is
\* sorted and renamed.  Every exception is caught and the loop continues.
LoopModelStep(raises, outputs) ==
    /\ pc = "loop"
    /\ LET j == loop_j
           start == valid_loop_ranges[j][1]
           end == valid_loop_ranges[j][2]
           rejected == overlap(start, end) # {}
           found == IF current_best_pdb \in DOMAIN task_files
                    THEN task_files[current_best_pdb] ELSE NoFile
           results == IF raises \/ found = NoFile THEN <<>>
                      ELSE sort_by_score(outputs)
           base_name == input_model.name
           new_files == {loop_name(base_name, j, m) :
                            m \in {k \in 1..Len(results) : results[k].renames}}
           unchanged_best == rejected \/ results = <<>>
       IN /\ engine_log' =
                 IF rejected THEN engine_log
                 ELSE Append(engine_log,
                             [loop |-> j, range |-> valid_loop_ranges[j],
                              inimodel |-> current_best_pdb, found |-> found,
                              best |-> best_built(j, results)])
          /\ task_files' =
                 IF unchanged_best THEN task_files
                 ELSE [f \in DOMAIN task_files \cup new_files |->
                          IF f \in new_files
                          THEN [step |-> j, score |-> results[f.r].score]
                          ELSE task_files[f]]
          /\ current_best_pdb' =
                 IF unchanged_best THEN current_best_pdb
                 ELSE loop_name(base_name, j, 1)
          /\ IF j = Len(valid_loop_ranges)
             THEN /\ pc' = stage_end_pc
                  /\ exit_code' = stage_end_code
                  /\ UNCHANGED loop_j
             ELSE /\ loop_j' = j + 1
                  /\ UNCHANGED <<pc, exit_code>>
    /\ UNCHANGED valid_loop_ranges
    /\ StageUnchanged

StageNext ==
    \/ \E parse_ok, engine_ok \in BOOLEAN :
           ControllerAutomodel(parse_ok, engine_ok)
    \/ \E parse_ok \in BOOLEAN : ControllerLoopmodel(parse_ok)
    \/ RunLoopModel
    \/ LoopModelStep(TRUE, <<>>)
    \/ \E outputs \in SeqsUpTo(EngineOutputs, MaxLoopModels) :
           LoopModelStep(FALSE, outputs)

SpecStage == StageInit /\ [][StageNext]_vars

\* the calls before the i-th engine call in which the engine built a model
ProducingBefore(i) == {k \in 1..(i - 1) : engine_log[k].best # NoFile}

OriginalInput ==
    IF input_model.present THEN [step |-> 0, score |-> -5] ELSE NoFile

\* C16: the loop steps of one input model run one after another in list
\* order, and the model a step starts from is the best-scored output of the
\* most recent earlier step that produced candidates, or the original input
\* model when no earlier step produced any.
SequentialRefinementChain ==
    \A i \in 1..Len(engine_log) :
        LET e == engine_log[i]
        IN /\ e.range = valid_loop_ranges[e.loop]
           /\ i > 1 => engine_log[i - 1].loop < e.loop
           /\ IF ProducingBefore(i) = {}
              THEN e.inimodel = input_model.name /\ e.found = OriginalInput
              ELSE LET k == CHOOSE x \in ProducingBefore(i) :
                                \A y \in ProducingBefore(i) : y <= x
                   IN /\ e.inimodel =
                             loop_name(input_model.name, engine_log[k].loop, 1)
                      /\ e.found = engine_log[k].best

\* C19: a loop step whose range overlaps the fixed residues makes no engine
\* call, leaves the current best model and the files as they are, and the
\* chain goes on: every valid range that does not overlap has had its engine
\* call when run_loop_model returns.
OverlappingLoopRejected ==
    /\ [][(pc = "loop" /\
              (valid_loop_ranges[loop_j][1]..valid_loop_ranges[loop_j][2])
                  \cap truly_fixed_residues # {}) =>
             /\ engine_log' = engine_log
             /\ current_best_pdb' = current_best_pdb
             /\ task_files' = task_files
             /\ exit_code' # 1
             /\ IF loop_j < Len(valid_loop_ranges)
                THEN pc' = "loop" /\ loop_j' = loop_j + 1
                ELSE pc' \in {"returned", "stage_exited"}]_vars
    /\ [](pc \in {"returned", "stage_exited"} =>
             \A j \in 1..Len(valid_loop_ranges) :
                 (valid_loop_ranges[j][1]..valid_loop_ranges[j][2])
                     \cap truly_fixed_residues = {}
                 => \E i \in 1..Len(engine_log) : engine_log[i].loop = j)

\* the first of two valid ranges was rejected and the second was refined
\* from the original input model, with candidates
OverlappingLoopWitness ==
    /\ pc = "returned"
    /\ Len(valid_loop_ranges) = 2
    /\ (valid_loop_ranges[1][1]..valid_loop_ranges[1][2])
           \cap truly_fixed_residues # {}
    /\ Len(engine_log) = 1
    /\ engine_log[1].loop = 2
    /\ engine_log[1].inimodel = input_model.name
    /\ current_best_pdb = loop_name(input_model.name, 2, 1)

\* C20: when the automodel or loopmodel stage has work to do and the clean
\* alignment file, the annotated alignment file or the input model is
\* absent, the stage exits with a non-zero code.
MissingArtifactIsFatal ==
    (/\ pc = "stage_exited"
     /\ stage = "loopmodel" => valid_loops(loop_ranges) # <<>>
     /\ \/ ~clean_ali_exists
        \/ ~cde_ali_exists
        \/ stage = "loopmodel" /\ ~input_model.present)
        => exit_code = 1

(***************************************************************************)
(* final-rank stage (PRISM_READY_TO_RUN utils.final_evaluation_and_ranking)*)
(* run in the results directory.                                           *)
(***************************************************************************)
MaxBest == 2

\* NUM_BEST_FINAL_MODELS of config.py, a number above every count of
\* candidates ("keep all")
keep_all == 1000000000

FinalScores == {-9, -5, -1, inf}

\* "model.pdb", an input model of the loopmodel stage with a name of the
\* user's choice
user_name == [base |-> "model", num |-> 0, loop |-> 0, r |-> 0]

\* "LOOP_x.pdb", a file of the user
stray_name == [base |-> "LOOP_", num |-> 0, loop |-> 0, r |-> 0]

\* 'AUTO_' in p.name
contains_AUTO(name) == name.base = "AUTO_"

\* 'LOOP_' in p.name: in "<base>_LOOP<j>_R<m>.pdb" a digit follows "LOOP",
\* so only the base can hold "LOOP_"
contains_LOOP(name) == name.base = "LOOP_"

\* p.name not in template_names
not_template(name) == name # template_name

gathered(dir) ==
    {p \in DOMAIN dir :
        not_template(p) /\ (contains_AUTO(p) \/ contains_LOOP(p))}

best_models_last(results) ==
    SubSeq(results, Len(results) - Min(NUM_BEST_FINAL_MODELS, Len(results)) + 1,
           Len(results))

\* results[:config.NUM_BEST_FINAL_MODELS]
best_models_of(results) ==
    SubSeq(results, 1, Min(NUM_BEST_FINAL_MODELS, Len(results)))

\* files of the pipeline that final-rank gathers, with every score
RankedNames == {auto_name(1), auto_name(2), loop_name(auto_name(1), 1, 1)}

\* a template, a loop candidate of an input model of the user, a file of
\* the user
OtherNames == {template_name, loop_name(user_name, 1, 1), stray_name}

FinalInit ==
    /\ pc = "final"
    /\ NUM_BEST_FINAL_MODELS \in 0..MaxBest \cup {keep_all}
    /\ \E present \in SUBSET (RankedNames \cup OtherNames) :
           \E score \in [present \cap RankedNames -> FinalScores] :
               work_dir = [f \in present |->
                              [model |-> f,
                               score |-> IF f \in RankedNames THEN score[f]
                                         ELSE -9]]
    /\ selected_for_refinement = <<>>
    /\ evaluated = <<>>
    /\ ranking_table = [saved |-> FALSE, rows |-> <<>>]
    /\ SplitIdle /\ InputIdle /\ RegionIdle /\ RefineIdle /\ GroupIdle
    /\ ReaderIdle /\ AliIdle /\ OrchIdle /\ StageIdle /\ AutoIdle

\* pdbs is the glob in the order the file system gives; when the table
\* cannot be written the exception is printed and nothing is saved
FinalEvaluationAndRanking(pdbs, csv_ok) ==
    /\ pc = "final"
    /\ IF pdbs = <<>>
       THEN /\ pc' = "final_exit1"
            /\ UNCHANGED <<evaluated, ranking_table>>
       ELSE LET results ==
                    sort_by_score([i \in 1..Len(pdbs) |->
                        [name |-> pdbs[i], score |-> work_dir[pdbs[i]].score]])
                best_models == best_models_of(results)
                rows == [k \in 1..Len(best_models) |->
                            [Rank |-> k, Model_Name |-> best_models[k].name,
                             DOPEHR_score |-> best_models[k].score]]
            IN /\ evaluated' = results
               /\ ranking_table' =
                      IF csv_ok THEN [saved |-> TRUE, rows |-> rows]
                      ELSE [saved |-> FALSE, rows |-> <<>>]
               /\ pc' = "final_done"
    /\ UNCHANGED <<work_dir, selected_for_refinement, NUM_BEST_FINAL_MODELS>>
    /\ UNCHANGED <<splitVars, inputVars, regionVars, refineVars, groupVars>>
    /\ UNCHANGED <<readerVars, aliVars, orchVars, stageVars, autoVars>>

FinalNext ==
    \E pdbs \in iterdir(gathered(work_dir)), csv_ok \in BOOLEAN :
        FinalEvaluationAndRanking(pdbs, csv_ok)

SpecFinal == FinalInit /\ [][FinalNext]_vars

Listed == {ranking_table.rows[k].Model_Name : k \in 1..Len(ranking_table.rows)}

\* C17: the saved table has rows of rank 1..m in this order, m = min(K, n)
\* for n evaluated candidates (n when all are kept); the scores do not
\* decrease down the table, every row is a candidate with its score, and a
\* candidate left out scores no better than a listed one.
FinalRankingTable ==
    (pc = "final_done" /\ ranking_table.saved) =>
        LET n == Cardinality(gathered(work_dir))
            m == IF NUM_BEST_FINAL_MODELS = keep_all THEN n
                 ELSE Min(NUM_BEST_FINAL_MODELS, n)
            rows == ranking_table.rows
        IN /\ Len(rows) = m
           /\ \A k \in 1..m :
                  /\ rows[k].Rank = k
                  /\ rows[k].Model_Name \in gathered(work_dir)
                  /\ rows[k].DOPEHR_score = work_dir[rows[k].Model_Name].score
           /\ \A i, j \in 1..m :
                  i < j => /\ rows[i].DOPEHR_score <= rows[j].DOPEHR_score
                           /\ rows[i].Model_Name # rows[j].Model_Name
           /\ \A p \in gathered(work_dir) \ Listed :
                  \A k \in 1..m : work_dir[p].score >= rows[k].DOPEHR_score

\* scores -5, -9, -1 in three candidates, ranked second, first and third
FinalRankingWitness ==
    /\ pc = "final_done" /\ ranking_table.saved
    /\ NUM_BEST_FINAL_MODELS = keep_all
    /\ Len(ranking_table.rows) = 3
    /\ auto_name(1) \in DOMAIN work_dir /\ work_dir[auto_name(1)].score = -5
    /\ ranking_table.rows[1] =
           [Rank |-> 1, Model_Name |-> auto_name(2), DOPEHR_score |-> -9]
    /\ ranking_table.rows[2].Model_Name = auto_name(1)
    /\ ranking_table.rows[3].DOPEHR_score = -1

\* C18: in a results directory that holds files of the pipeline only, the
\* files final-rank scores are the ranked homology models and every refined
\* loop candidate <base>_LOOP<j>_R<m>.pdb, whatever the base name of the
\* input model, and no template file.
GathersEveryCandidate ==
    (pc = "final_done" /\ stray_name \notin DOMAIN work_dir) =>
        {evaluated[k].name : k \in 1..Len(evaluated)} =
            {p \in DOMAIN work_dir \ {template_name} :
                (p.base = "AUTO_" /\ p.loop = 0) \/ p.loop > 0}

\* ---------------------------------------------------------------------
\* Zero candidates at rank-automodel
\* ---------------------------------------------------------------------

\* C21: when the working directory holds no candidate whose name matches
\* the raw automodel pattern, rank-automodel renames nothing and does not
\* end with the failure exit that stops the pipeline.
ZeroCandidatesTolerated ==
    [][(pc = "rank" /\ RawFiles(work_dir) = {}) =>
          /\ work_dir' = work_dir
          /\ pc' # "rank_exit1"]_vars

(***************************************************************************)
(* automodel array tasks of the test-1 controller: the execution paradigm, *)
(* the power alignment every task writes, and the engine call.             *)
(***************************************************************************)
MaxTasks == 2

Paradigms == {"precalculation", "precomputed", "normal", "prism-power"}

InputModes == {"precalculation", "precomputed", "normal"}

AutomodelLocals == {"knowns", "ali_file", "fixed_res"}

\* input_dir / f"prism_power_{phase}.ali"
power_ali_path(phase) == [file |-> "prism_power.ali", phase |-> phase]

\* config.MANUAL_ALIGNMENT_FILE, read and never written by the stage
manual_alignment_file == [file |-> "manual.ali", phase |-> ""]

CUSTOM_INIFILE_PATH == [file |-> "precomputed_ini.pdb", phase |-> ""]

CUSTOM_RSRFILE_PATH == [file |-> "precomputed_rsr.rsr", phase |-> ""]

\* getattr(config.PRISM_POWER_SETTINGS, phase): the settings have the
\* attributes precalculation and precomputed only
has_power_map(phase) == phase \in {"precalculation", "precomputed"}

\* the branches of main that call prepare_prism_power_files
uses_power_files(paradigm, mode) ==
    \/ paradigm = "prism-power" /\ mode \in {"precalculation", "precomputed"}
    \/ paradigm \in {"precalculation", "precomputed"}

\* the tasks that hold path open for writing, other than task t
open_by_others(t, path) ==
    {u \in DOMAIN auto_tasks \ {t} :
        auto_tasks[u].pc = "power_write" /\ auto_tasks[u].ali_file = path}

io_event(op, t, path) ==
    [op |-> op, task |-> t, path |-> path,
     while_open_by |-> open_by_others(t, path)]

PowerInit ==
    /\ pc = "power"
    /\ EXECUTION_PARADIGM \in Paradigms
    /\ INPUT_MODE \in InputModes
    /\ \E n \in 1..MaxTasks :
           auto_tasks = [t \in 1..n |->
                            [pc |-> "start", bound |-> {},
                             ali_file |-> manual_alignment_file,
                             error |-> "none"]]
    /\ \E precomputed_present \in BOOLEAN :
           input_dir = (manual_alignment_file :> "complete")
                       @@ (IF precomputed_present
                           THEN (CUSTOM_INIFILE_PATH :> "complete")
                                @@ (CUSTOM_RSRFILE_PATH :> "complete")
                           ELSE <<>>)
    /\ orchestrator_runs = 1
    /\ automodel_calls = <<>>
    /\ io_events = {}
    /\ SplitIdle /\ InputIdle /\ RegionIdle /\ RefineIdle /\ GroupIdle
    /\ ReaderIdle /\ AliIdle /\ OrchIdle /\ RankIdle /\ StageIdle

PowerUnchanged ==
    /\ UNCHANGED <<pc, EXECUTION_PARADIGM, INPUT_MODE, orchestrator_runs>>
    /\ UNCHANGED <<splitVars, inputVars, regionVars, refineVars, groupVars>>
    /\ UNCHANGED <<readerVars, aliVars, orchVars, rankVars, stageVars>>

task_failed(t, error) ==
    auto_tasks' = [auto_tasks EXCEPT ![t].pc = "failed", ![t].error = error]

\* main --stage automodel up to the choice of the paradigm branch; the
\* branch of the normal paradigm is run_prerequisites alone, which reads
\* the alignments and writes nothing
AutomodelBranch(t, prerequisites_ok) ==
    /\ auto_tasks[t].pc = "start"
    /\ IF EXECUTION_PARADIGM = "normal"
       THEN IF prerequisites_ok
            THEN auto_tasks' =
                     [auto_tasks EXCEPT ![t].pc = "call",
                                        ![t].bound = AutomodelLocals,
                                        ![t].ali_file = manual_alignment_file]
            ELSE task_failed(t, "FileNotFoundError")
       ELSE IF uses_power_files(EXECUTION_PARADIGM, INPUT_MODE)
            THEN IF has_power_map(INPUT_MODE)
                 THEN auto_tasks' = [auto_tasks EXCEPT ![t].pc = "power_open"]
                 ELSE task_failed(t, "AttributeError")
            ELSE auto_tasks' = [auto_tasks EXCEPT ![t].pc = "call"]
    /\ UNCHANGED <<automodel_calls, input_dir, io_events>>
    /\ PowerUnchanged

\* prepare_prism_power_files down to open(power_ali_path, 'w'), which
\* empties the file
OpenPowerAli(t) ==
    /\ auto_tasks[t].pc = "power_open"
    /\ LET path == power_ali_path(INPUT_MODE)
       IN /\ io_events' = io_events \cup {io_event("write", t, path)}
          /\ input_dir' = [f \in DOMAIN input_dir \cup {path} |->
                              IF f = path THEN "empty" ELSE input_dir[f]]
          /\ auto_tasks' = [auto_tasks EXCEPT ![t].pc = "power_write",
                                              ![t].ali_file = path]
    /\ UNCHANGED automodel_calls
    /\ PowerUnchanged

\* f.write(new_ali_content) and the close of the file, the return of
\* prepare_prism_power_files, then run_prerequisites
WritePowerAli(t, prerequisites_ok) ==
    /\ auto_tasks[t].pc = "power_write"
    /\ input_dir' = [input_dir EXCEPT ![auto_tasks[t].ali_file] = "complete"]
    /\ IF prerequisites_ok
       THEN auto_tasks' = [auto_tasks EXCEPT ![t].pc = "call",
                                             ![t].bound = AutomodelLocals]
       ELSE task_failed(t, "FileNotFoundError")
    /\ UNCHANGED <<automodel_calls, io_events>>
    /\ PowerUnchanged

\* the files the engine reads when it is made: the alignment, and in
\* precomputed mode the two shared artifacts
engine_reads(t) ==
    {auto_tasks[t].ali_file}
        \cup (IF INPUT_MODE = "precomputed"
              THEN {CUSTOM_INIFILE_PATH, CUSTOM_RSRFILE_PATH}
              ELSE {})

\* modeling_engine.run_automodel(env, ali_file, job, fixed_res, start, end,
\* knowns, input_mode): the argument list is evaluated first; in
\* precalculation mode the two generated files are moved to the shared paths
RunAutomodel(t, generated) ==
    /\ auto_tasks[t].pc = "call"
    /\ IF auto_tasks[t].bound # AutomodelLocals
       THEN /\ task_failed(t, "UnboundLocalError")
            /\ UNCHANGED <<automodel_calls, input_dir, io_events>>
       ELSE LET reads == engine_reads(t)
                moved == IF INPUT_MODE = "precalculation" /\ generated
                         THEN {CUSTOM_INIFILE_PATH, CUSTOM_RSRFILE_PATH}
                         ELSE {}
            IN /\ automodel_calls' =
                      Append(automodel_calls,
                             [job_id |-> t,
                              alnfile |-> auto_tasks[t].ali_file,
                              saw |-> [f \in reads |->
                                          IF f \in DOMAIN input_dir
                                          THEN input_dir[f] ELSE "absent"]])
               /\ io_events' = io_events
                      \cup {io_event("read", t, f) : f \in reads}
                      \cup {io_event("write", t, f) : f \in moved}
               /\ input_dir' = [f \in DOMAIN input_dir \cup moved |->
                                   IF f \in moved THEN "complete"
                                   ELSE input_dir[f]]
               /\ auto_tasks' = [auto_tasks EXCEPT ![t].pc = "done"]
    /\ PowerUnchanged

PowerNext ==
    \/ \E t \in 1..MaxTasks, prerequisites_ok \in BOOLEAN :
           t \in DOMAIN auto_tasks /\ AutomodelBranch(t, prerequisites_ok)
    \/ \E t \in 1..MaxTasks : t \in DOMAIN auto_tasks /\ OpenPowerAli(t)
    \/ \E t \in 1..MaxTasks, prerequisites_ok \in BOOLEAN :
           t \in DOMAIN auto_tasks /\ WritePowerAli(t, prerequisites_ok)
    \/ \E t \in 1..MaxTasks, generated \in BOOLEAN :
           t \in DOMAIN auto_tasks /\ RunAutomodel(t, generated)

SpecPower == PowerInit /\ [][PowerNext]_vars

\* C22: no array task writes or reads a file while another running task of
\* the stage has that file open for writing.
ArrayTasksIndependent == \A e \in io_events : e.while_open_by = {}

\* C29: under every execution paradigm and every accepted input mode the
\* automodel stage reaches the call of run_automodel with the template
\* list, the alignment file and the fixed-residue set bound.
AutomodelArgumentsDefined ==
    \A t \in DOMAIN auto_tasks :
        auto_tasks[t].pc = "call" => auto_tasks[t].bound = AutomodelLocals

(***************************************************************************)
(* automodel array tasks of PRISM_READY_TO_RUN: controller.main with       *)
(* --stage automodel, run_automodel and the shared precomputed artifacts,  *)
(* over the orchestrator runs of one project.                              *)
(***************************************************************************)
MaxAutoModels == 3

MaxRuns == 2

\* config.py of PRISM_READY_TO_RUN assigns no INPUT_MODE; a user may add one
unset == "unset"

ConfiguredInputModes == InputModes \cup {unset}

SharedArtifacts == {CUSTOM_INIFILE_PATH, CUSTOM_RSRFILE_PATH}

\* the array range of stage 2 in one orchestrator run
automodel_array(rsr_ini_precalculation) ==
    IF rsr_ini_precalculation THEN {1} ELSE 1..NUM_SPLITTED_PROCESSES

submitted_tasks(run, rsr_ini_precalculation) ==
    [t \in automodel_array(rsr_ini_precalculation) |->
        [run |-> run, job_id |-> t, precalculation |-> rsr_ini_precalculation,
         pc |-> "pending", exit_code |-> -1]]

\* run_prerequisites as the automodel stage uses it: its fourth result
automodel_prerequisites ==
    LET e == identify_experimental_residues(aligned_template_seq,
                                            aligned_target_seq)
        d == LoopDetection(e.value)
    IN [err |-> IF ~clean_ali_exists \/ ~cde_ali_exists
                THEN "FileNotFoundError"
                ELSE IF e.err # "none" THEN e.err ELSE d.err,
        fixed_res |-> IF REFINE_FLANKS_DURING_AUTOMODEL
                      THEN d.truly_fixed_residues
                      ELSE e.value]

present_artifacts == SharedArtifacts \cap DOMAIN input_dir

AutoInit ==
    /\ pc = "auto"
    /\ NUM_MODELS_AUTO \in 1..MaxAutoModels
    /\ NUM_SPLITTED_PROCESSES \in 1..MaxTasks
    /\ exited = {} /\ engine_calls = {}
    /\ aligned_template_seq \in {<<"A", "A", "A">>, <<"A", "-", "A">>}
    /\ aligned_target_seq = <<"A", "A", "A">>
    /\ seq_full = aligned_target_seq
    /\ ss2_file = <<"C", "C", "C">>
    /\ EXPERIMENTAL_FLANK_SIZE = 1
    /\ REFINE_FLANKS_DURING_AUTOMODEL \in BOOLEAN
    /\ stage = "automodel"
    /\ clean_ali_exists = TRUE
    /\ cde_ali_exists \in BOOLEAN
    /\ input_model = <<>> /\ task_files = <<>> /\ current_best_pdb = <<>>
    /\ engine_log = <<>> /\ exit_code = -1
    /\ RSR_INI_PRECALCULATION \in BOOLEAN
    /\ INPUT_MODE \in ConfiguredInputModes
    /\ EXECUTION_PARADIGM = "normal"
    /\ orchestrator_runs = 1
    /\ auto_tasks = submitted_tasks(1, RSR_INI_PRECALCULATION)
    /\ automodel_calls = <<>>
    /\ input_dir = <<>>
    /\ io_events = {}
    /\ NUM_MODELS_TO_REFINE = 1
    /\ orch_pc = [next |-> 0, status |-> "idle"]
    /\ job_dep = <<>> /\ task_state = <<>> /\ task_exit = <<>>
    /\ RegionIdle /\ RefineIdle /\ GroupIdle /\ ReaderIdle /\ AliIdle
    /\ RankIdle

AutoUnchanged ==
    /\ UNCHANGED <<pc, EXECUTION_PARADIGM, io_events>>
    /\ UNCHANGED <<splitVars, inputVars, regionVars, refineVars, groupVars>>
    /\ UNCHANGED <<readerVars, aliVars, rankVars, stageVars>>
    /\ UNCHANGED <<NUM_MODELS_TO_REFINE, orch_pc, job_dep, task_state,
                   task_exit>>

\* a further orchestrator run on the same project, with config.py as the
\* user left it, started when the task of the precalculation run that
\* came before has exited with status 0
OrchestratorRun(rsr_ini_precalculation, input_mode) ==
    /\ pc = "auto"
    /\ orchestrator_runs < MaxRuns
    /\ RSR_INI_PRECALCULATION
    /\ \A t \in DOMAIN auto_tasks :
           auto_tasks[t].pc = "exited" /\ auto_tasks[t].exit_code = 0
    /\ RSR_INI_PRECALCULATION' = rsr_ini_precalculation
    /\ INPUT_MODE' = input_mode
    /\ orchestrator_runs' = orchestrator_runs + 1
    /\ auto_tasks' = submitted_tasks(orchestrator_runs + 1,
                                     rsr_ini_precalculation)
    /\ UNCHANGED <<automodel_calls, input_dir>>
    /\ AutoUnchanged

exit_with(t, code) ==
    auto_tasks' = [auto_tasks EXCEPT ![t].pc = "exited", ![t].exit_code = code]

\* what FixedRegionAutoModel is given and what it finds when it is made
engine_call(t, start, end, fixed_res) ==
    [run |-> auto_tasks[t].run, job_id |-> t,
     starting_model |-> start, ending_model |-> end,
     experimental_residues |-> fixed_res,
     input_mode |-> INPUT_MODE,
     exit_stage |-> IF RSR_INI_PRECALCULATION THEN 1 ELSE 0,
     found |-> present_artifacts]

\* controller.main --stage automodel --job-id t with run_automodel inside:
\* generated are the files the engine leaves after exit_stage=1, raises
\* tells whether a.make() raises
AutomodelTask(t, generated, raises) ==
    /\ pc = "auto"
    /\ t \in DOMAIN auto_tasks
    /\ auto_tasks[t].pc = "pending"
    /\ LET start == job_start(t)
           end == job_end(t)
           p == automodel_prerequisites
       IN IF p.err # "none"
          THEN /\ exit_with(t, 1)
               /\ UNCHANGED <<automodel_calls, input_dir>>
          ELSE IF start > end
          THEN /\ exit_with(t, 0)
               /\ UNCHANGED <<automodel_calls, input_dir>>
          ELSE IF INPUT_MODE = unset
          THEN /\ exit_with(t, 1)
               /\ UNCHANGED <<automodel_calls, input_dir>>
          ELSE /\ automodel_calls' =
                      Append(automodel_calls,
                             engine_call(t, start, end, p.fixed_res))
               /\ IF raises
                     \/ (INPUT_MODE = "precomputed"
                         /\ present_artifacts # SharedArtifacts)
                  THEN /\ exit_with(t, 1)
                       /\ UNCHANGED input_dir
                  ELSE /\ exit_with(t, 0)
                       /\ input_dir' =
                              IF RSR_INI_PRECALCULATION
                                 /\ generated = SharedArtifacts
                              THEN [f \in SharedArtifacts |-> "complete"]
                              ELSE input_dir
    /\ UNCHANGED <<RSR_INI_PRECALCULATION, INPUT_MODE, orchestrator_runs>>
    /\ AutoUnchanged

AutoNext ==
    \/ \E rsr_ini_precalculation \in BOOLEAN, input_mode \in InputModes :
           OrchestratorRun(rsr_ini_precalculation, input_mode)
    \/ \E t \in 1..MaxTasks, generated \in SUBSET SharedArtifacts,
          raises \in BOOLEAN :
           AutomodelTask(t, generated, raises)

SpecAuto == AutoInit /\ [][AutoNext]_vars

calls_of(t) ==
    {i \in DOMAIN automodel_calls :
        /\ automodel_calls[i].run = auto_tasks[t].run
        /\ automodel_calls[i].job_id = t}

\* C24: when the prerequisites succeed, an automodel task whose slot is
\* empty (start > end) exits with 0 without an engine call, and every
\* other task invokes the engine exactly once, with starting_model =
\* start, ending_model = end and the fixed-residue set of run_prerequisites.
AutomodelInvokesEngineOnce ==
    \A t \in DOMAIN auto_tasks :
        (auto_tasks[t].pc = "exited" /\ automodel_prerequisites.err = "none")
        => IF job_start(t) > job_end(t)
           THEN calls_of(t) = {} /\ auto_tasks[t].exit_code = 0
           ELSE /\ Cardinality(calls_of(t)) = 1
                /\ \A i \in calls_of(t) :
                       /\ automodel_calls[i].starting_model = job_start(t)
                       /\ automodel_calls[i].ending_model = job_end(t)
                       /\ automodel_calls[i].experimental_residues
                              = automodel_prerequisites.fixed_res

\* C23: a run in precalculation mode has exactly one automodel task, and
\* an automodel task in precomputed mode that follows it invokes the
\* engine only when that task has persisted both shared artifacts.
PrecalculationPrecedesPrecomputed ==
    /\ RSR_INI_PRECALCULATION => Cardinality(DOMAIN auto_tasks) = 1
    /\ \A i \in DOMAIN automodel_calls :
           (/\ automodel_calls[i].run > 1
            /\ automodel_calls[i].exit_stage = 0
            /\ automodel_calls[i].input_mode = "precomputed")
           => automodel_calls[i].found = SharedArtifacts

(***************************************************************************)
(* run_prerequisites of the test-1 variant, automatic detection mode       *)
(* (USE_MANUAL_OPTIMIZATION_SELECTION = False).  MOBILE_FLANK_RESIDUES is  *)
(* held by EXPERIMENTAL_FLANK_SIZE.                                        *)
(***************************************************************************)
\* the two guarded `for i in range(N)` loops over one experimental range:
\* the leading flank needs start > 1, the trailing one end < MAX_LEN
connected_flank_of_range(start, end, N, MAX_LEN) ==
    (IF start > 1
     THEN {start + i : i \in {k \in 0..N - 1 : start + k <= end}}
     ELSE {})
        \cup (IF end < MAX_LEN
              THEN {end - i : i \in {k \in 0..N - 1 : end - k >= start}}
              ELSE {})

connected_flank_of(experimental_ranges, N, MAX_LEN) ==
    UNION {connected_flank_of_range(experimental_ranges[r][1],
                                    experimental_ranges[r][2], N, MAX_LEN) :
              r \in 1..Len(experimental_ranges)}

ExampleTemplate ==
    <<"A", "A", "A", "A", "-", "-", "-", "-", "A", "A", "A", "A">>

FlankTestInit ==
    /\ pc = "start_test1"
    /\ aligned_template_seq \in
           UNION {[1..n -> {"A", "-"}] : n \in 1..MaxLen} \cup {ExampleTemplate}
    /\ aligned_target_seq = [i \in 1..Len(aligned_template_seq) |-> "A"]
    /\ ss2_file = [i \in 1..Len(aligned_template_seq) |-> "C"]
    /\ seq_full = aligned_target_seq
    /\ EXPERIMENTAL_FLANK_SIZE \in 0..MaxFlank
    /\ REFINE_FLANKS_DURING_AUTOMODEL \in BOOLEAN
    /\ SplitIdle /\ RegionIdle /\ RefineIdle /\ GroupIdle /\ ReaderIdle
    /\ LaterIdle

RunPrerequisitesTest1 ==
    /\ pc = "start_test1"
    /\ LET e == identify_experimental_residues(aligned_template_seq,
                                               aligned_target_seq)
           MAX_LEN == Len(seq_full)
           coil == get_coil_residues(ss2_file, seq_full)
           experimental_ranges == group_ranges(list(e.value))
           flank == connected_flank_of(experimental_ranges,
                                       EXPERIMENTAL_FLANK_SIZE, MAX_LEN)
           truly_fixed == e.value \ flank
       IN IF e.err # "none" \/ coil.err # "none"
          THEN /\ pc' = "exit1"
               /\ UNCHANGED regionVars
          ELSE /\ pc' = "prereq_done_test1"
               /\ experimental_residues' = e.value
               /\ all_coil' = coil.value
               /\ flank_residues' = flank
               /\ truly_fixed_residues' = truly_fixed
               /\ loop_ranges' =
                      group_ranges(list(refinable_residues(coil.value,
                                                           truly_fixed)))
               /\ automodel_fixed' = IF REFINE_FLANKS_DURING_AUTOMODEL
                                     THEN truly_fixed
                                     ELSE e.value
    /\ UNCHANGED <<splitVars, inputVars, refineVars, groupVars, readerVars>>
    /\ UNCHANGED <<aliVars, orchVars, rankVars, stageVars, autoVars>>

FlankTestNext == RunPrerequisitesTest1

SpecFlankTest == FlankTestInit /\ [][FlankTestNext]_vars

\* C25: in the test-1 variant every experimental range [s, e] gives the
\* flank set its first min(N, e-s+1) positions and its last min(N, e-s+1)
\* positions, also when s is residue 1 or e is the last residue; for the
\* template AAAA----AAAA and N = 1 the flank set is {1, 4, 9, 12} and the
\* deep-fixed set {2, 3, 10, 11}.
FlankOfEveryRangeTest1 ==
    pc = "prereq_done_test1" =>
        LET N == EXPERIMENTAL_FLANK_SIZE
        IN /\ \A s, e \in 1..Len(aligned_target_seq) :
                 IsExperimentalRange(s, e) =>
                    LET w == Min(N, e - s + 1)
                    IN flank_residues \cap (s..e) =
                           (s..s + w - 1) \cup (e - w + 1..e)
           /\ (aligned_template_seq = ExampleTemplate /\ N = 1) =>
                 /\ flank_residues = {1, 4, 9, 12}
                 /\ truly_fixed_residues = {2, 3, 10, 11}

(***************************************************************************)
(* flatten_ali_file, and the reads of an alignment before and after it.    *)
(***************************************************************************)
MaxFlattenings == 2

\* ''.join(seq_buffer).replace(' ', '')
remove_spaces(text) == SelectSeq(text, LAMBDA c : c # " ")

\* `if not full_seq.endswith('*'): full_seq += '*'`
terminated(text) ==
    IF text # <<>> /\ text[Len(text)] = "*" THEN text ELSE Append(text, "*")

\* `if seq_buffer:` and the four lines under it
flush(new_lines, seq_buffer) ==
    IF seq_buffer # <<>>
    THEN Append(new_lines, ResidueLine(terminated(remove_spaces(seq_buffer))))
    ELSE new_lines

\* stripped.startswith(('>P1;', 'structure', 'sequence', '#'))
flatten_header(line) == line.kind \in {"header", "descriptor", "comment"}

RECURSIVE flatten_walk(_, _, _, _)
flatten_walk(lines, i, new_lines, seq_buffer) ==
    IF i > Len(lines)
    THEN flush(new_lines, seq_buffer)
    ELSE IF flatten_header(lines[i])
    THEN flatten_walk(lines, i + 1,
                      Append(flush(new_lines, seq_buffer), lines[i]), <<>>)
    ELSE flatten_walk(lines, i + 1, new_lines, seq_buffer \o lines[i].text)

flatten_ali_file(lines) == flatten_walk(lines, 1, <<>>, <<>>)

FlattenInit ==
    /\ pc = "read"
    /\ ali_file \in SeqsUpTo(AliLines, MaxAliLines)
    /\ ali_result = NoResult
    /\ ali_reads = <<>>
    /\ SplitIdle /\ InputIdle /\ RegionIdle /\ RefineIdle /\ GroupIdle
    /\ ReaderIdle /\ OrchIdle /\ RankIdle /\ StageIdle /\ AutoIdle

FlattenUnchanged ==
    /\ UNCHANGED <<splitVars, inputVars, regionVars, refineVars, groupVars>>
    /\ UNCHANGED <<readerVars, orchVars, rankVars, stageVars, autoVars>>

\* read_sequences_from_ali on the file as it is now
ReadAli ==
    /\ pc = "read"
    /\ ali_result' = read_sequences_from_ali(ali_file)
    /\ ali_reads' = Append(ali_reads, ali_result')
    /\ pc' = IF Len(ali_reads) < MaxFlattenings THEN "flatten" ELSE "ali_done"
    /\ UNCHANGED ali_file
    /\ FlattenUnchanged

\* flatten_ali_file rewrites the file in place
FlattenAliFile ==
    /\ pc = "flatten"
    /\ ali_file' = flatten_ali_file(ali_file)
    /\ pc' = "read"
    /\ UNCHANGED <<ali_result, ali_reads>>
    /\ FlattenUnchanged

FlattenNext == ReadAli \/ FlattenAliFile

SpecFlatten == FlattenInit /\ [][FlattenNext]_vars

\* C26: read_sequences_from_ali gives the same result on the file as
\* written, after one flattening and after every further flattening, and a
\* flattened file is a fixed point of flatten_ali_file.
FlatteningKeepsTheMapping ==
    /\ \A i, j \in DOMAIN ali_reads : ali_reads[i] = ali_reads[j]
    /\ Len(ali_reads) >= 2 => flatten_ali_file(ali_file) = ali_file

(***************************************************************************)
(* The loop steps of one input model: which ranges reach the engine, and   *)
(* whether the input of each step exists.                                  *)
(***************************************************************************)
\* the for loop over valid_loops goes on until the list is exhausted
SpecStageFair == SpecStage /\ WF_vars(StageNext)

Submitted(r) == \E i \in 1..Len(engine_log) : engine_log[i].range = r

PrerequisitesFailed == pc = "stage_exited" /\ exit_code = 1

AscendingSubmissions ==
    \A i, k \in 1..Len(engine_log) :
        i < k => engine_log[i].range[2] < engine_log[k].range[1]

\* C27 as stated: every range run_prerequisites returns to the loopmodel
\* stage is eventually submitted to the engine, in ascending residue order.
EveryLoopRangeRefined ==
    /\ [](stage = "loopmodel" => AscendingSubmissions)
    /\ (stage = "loopmodel") =>
           <>(PrerequisitesFailed
              \/ \A k \in 1..Len(loop_ranges) : Submitted(loop_ranges[k]))

\* C27 amended: every range of 4 to 1000 residues that run_prerequisites
\* returns to the loopmodel stage is eventually submitted to the engine, in
\* ascending residue order; a shorter or longer range is never submitted.
EveryValidLoopRangeRefined ==
    /\ [](stage = "loopmodel" =>
             /\ AscendingSubmissions
             /\ \A i \in 1..Len(engine_log) :
                    LET r == engine_log[i].range
                    IN /\ r[2] - r[1] + 1 >= min_loop_length
                       /\ r[2] - r[1] + 1 <= max_loop_length)
    /\ (stage = "loopmodel") =>
           <>(PrerequisitesFailed
              \/ \A k \in 1..Len(loop_ranges) :
                     (/\ loop_ranges[k][2] - loop_ranges[k][1] + 1
                             >= min_loop_length
                      /\ loop_ranges[k][2] - loop_ranges[k][1] + 1
                             <= max_loop_length)
                     => Submitted(loop_ranges[k]))

\* the loopmodel stage has ended after two ranges of valid length were
\* submitted in ascending order
EveryValidLoopRangeWitness ==
    /\ stage = "loopmodel"
    /\ pc = "stage_exited"
    /\ exit_code = 0
    /\ loop_ranges = <<<<1, 4>>, <<6, 9>>>>
    /\ Len(engine_log) = 2
    /\ engine_log[1].range = <<1, 4>>
    /\ engine_log[2].range = <<6, 9>>

\* C28: when the original input model exists, the file named as the input
\* model of every loop step exists when the step starts, whatever the
\* earlier steps returned.
ChainInputExists ==
    input_model.present =>
        \A i \in 1..Len(engine_log) : engine_log[i].found # NoFile

(***************************************************************************)
(* Exit status of the submitted commands and the start of later stages.    *)
(***************************************************************************)
ArrayStages == {2, 4}

ExitedTasks(s) ==
    {t \in DOMAIN task_state[s] : task_state[s][t] \in {"ok", "failed"}}

\* C30: an automodel or loopmodel array task succeeds exactly when its
\* trailing cleanup does, whatever the controller returned, so once every
\* task of the array has exited with a clean cleanup the dependent stage
\* can start even if a controller failed; a prereq-cde or rank-automodel
\* job whose controller fails keeps every later stage from starting.
ExitStatusOfArrayTasks ==
    pc = "orch" =>
        \A s \in DOMAIN task_state :
            /\ \A t \in ExitedTasks(s) :
                   task_state[s][t] = "ok" <=>
                       IF s \in ArrayStages
                       THEN task_exit[s][t].cleanup = 0
                       ELSE task_exit[s][t].controller = 0
            /\ (s \in ArrayStages /\ s + 1 \in DOMAIN task_state
                /\ \A t \in DOMAIN task_state[s] :
                       t \in ExitedTasks(s) /\ task_exit[s][t].cleanup = 0)
               => dependency_satisfied(s + 1)
            /\ (s \notin ArrayStages
                /\ \E t \in ExitedTasks(s) : task_exit[s][t].controller # 0)
               => \A later \in DOMAIN task_state :
                      later > s => Started(later) = {}

\* the controller failed in an automodel task and in a loopmodel task, and
\* rank-automodel and final-rank started all the same
ExitStatusWitness ==
    /\ pc = "orch"
    /\ 5 \in DOMAIN task_state
    /\ \E t \in DOMAIN task_state[2] : task_exit[2][t].controller = 1
    /\ \E t \in DOMAIN task_state[4] : task_exit[4][t].controller = 1
    /\ task_state[3][1] = "ok"
    /\ task_state[5][1] = "running"

====
